---- MODULE Spec2Model ----
(***************************************************************************)
(* Chronosta: the fixed-timestep game loop (src/main.py), the slow-motion  *)
(* controller (src/managers/time_manager.py) and the game-mode machine     *)
(* (src/managers/state_manager.py).                                        *)
(*                                                                         *)
(* Numbers.  Frame times, the accumulator and the fixed step are Python    *)
(* floats (IEEE-754 doubles).  A double x of milliseconds is the record    *)
(* [n, d] with  x = n/3 + d*U  where  U = 2^-48 / 3 :  n counts thirds of  *)
(* a millisecond (1000/60 is 50 thirds) and d is the distance, in units    *)
(* of U, between the double and that exact fraction.  |d| stays far below  *)
(* 2^48, so order is lexicographic.  Every arithmetic result is rounded    *)
(* to the nearest double, ties to even, as the hardware does (FRound).     *)
(* Time scales are in thousandths (1.0 is 1000, 0.5 is 500).               *)
(***************************************************************************)
EXTENDS Integers, Sequences, FiniteSets, TLC

VARIABLES
    pc,                \* position in Game.run: "events","tick","drain","done"
    running,           \* Game.running
    accumulated_time,  \* Game.accumulated_time
    frame_time,        \* local of Game.run: the frame time after the clamp
    steps_in_pass,     \* fixed_update calls made by the current drain loop
    interpolation,     \* value last handed to Game.render
    events_handled,    \* events dispatched so far in this frame
    now,               \* what pygame.time.get_ticks() returns
    time_manager,      \* the TimeManager object
    update_dt,         \* dt last passed to GameStateManager.update
    current_state,     \* GameStateManager.current_state
    menu_selected,     \* MenuState.selected_option
    paused_selected,   \* PausedState.selected_option
    era_state,         \* the EraTransitionState object
    playing,           \* the PlayingState object (level index, dt of its update)
    player,            \* the Player object (era, era-power cooldown, stamina)
    last_call,         \* observer: the last interface call and its result
    save_dir,          \* the files of SaveManager.save_dir
    ref,               \* observer: reference scheduler fed the same frame times
    ledger             \* observer: totals over the frames fed so far

gameVars == <<pc, running, accumulated_time, frame_time, steps_in_pass,
              interpolation, events_handled>>
tmVars == <<now, time_manager>>
smVars == <<update_dt, current_state, menu_selected, paused_selected,
            era_state, playing, player>>
obsVars == <<ref, ledger>>
vars == <<pc, running, accumulated_time, frame_time, steps_in_pass,
          interpolation, events_handled, now, time_manager, update_dt,
          current_state, menu_selected, paused_selected, era_state, playing,
          player, last_call, save_dir, ref, ledger>>

----------------------------------------------------------------------------
(* Bounds of the model. *)

MaxFrames == 4          \* frames fed in the scheduler specifications
MaxEventsPerFrame == 2  \* length of the list pygame.event.get() returns
MaxNow == 5000          \* last wall-clock reading of the game specifications
MaxPlayFrames == 5      \* frames fed in the gameplay specification
MaxNowLong == 40000     \* last wall-clock reading of the slow-motion specification
MaxUpdates == 6           \* Player.update calls in the player interface specification
MaxFadeFrames == 16     \* frames fed in the fade specification
MaxSaves == 2           \* save_game calls of the save specification
MaxWrites == 3          \* save_game calls of the fallback specification
MaxPlayed == 1          \* gameplay updates before the player rests
MaxLivePlayed == 4      \* the same under fair scheduling, a step or two a frame
MaxEnemyUpdates == 14     \* PlayingState.update calls in the enemy interface specification

(* Program constants. *)

FPS == 60
SLOW_MOTION_FACTOR == 500
SLOW_MOTION_DURATION == 5000
SLOW_MOTION_COOLDOWN == 30000
MaxFrameSteps == 5

----------------------------------------------------------------------------
(* IEEE-754 double arithmetic on millisecond values. *)

Ms(n, d) == [n |-> n, d |-> d]
FromMs(k) == Ms(3 * k, 0)
FZero == Ms(0, 0)

FLt(a, b) == a.n < b.n \/ (a.n = b.n /\ a.d < b.d)
FLe(a, b) == ~FLt(b, a)
FNeg(a) == Ms(-a.n, -a.d)

\* Spacing of the doubles around a value v >= 0, in units of U:
\* 2^-48 below 32 ms, doubling with each binade (supported up to 2^18 ms).
Ulp(v) ==
    IF FLt(v, FromMs(32)) THEN 3
    ELSE IF FLt(v, FromMs(64)) THEN 6
    ELSE IF FLt(v, FromMs(128)) THEN 12
    ELSE IF FLt(v, FromMs(256)) THEN 24
    ELSE IF FLt(v, FromMs(512)) THEN 48
    ELSE IF FLt(v, FromMs(1024)) THEN 96
    ELSE IF FLt(v, FromMs(2048)) THEN 192
    ELSE IF FLt(v, FromMs(4096)) THEN 384
    ELSE IF FLt(v, FromMs(8192)) THEN 768
    ELSE IF FLt(v, FromMs(16384)) THEN 1536
    ELSE IF FLt(v, FromMs(32768)) THEN 3072
    ELSE IF FLt(v, FromMs(65536)) THEN 6144
    ELSE IF FLt(v, FromMs(131072)) THEN 12288
    ELSE 24576

\* v in units of U, modulo m (m divides 3 * 2^16): 2^48 is 2^16 modulo
\* 3 * 2^16.
Residue(v, m) == ((65536 % m) * (v.n % m) + v.d) % m

\* Round-to-nearest, ties-to-even, of an exact value v >= 0.
RoundPos(v) ==
    LET g == Ulp(v)
        r == Residue(v, g)
        down == Ms(v.n, v.d - r)
        up == Ms(v.n, v.d + g - r)
    IN  IF r = 0 THEN v
        ELSE IF 2 * r < g THEN down
        ELSE IF 2 * r > g THEN up
        ELSE IF Residue(down, 2 * g) = 0 THEN down ELSE up

FRound(v) == IF FLt(v, FZero) THEN FNeg(RoundPos(FNeg(v))) ELSE RoundPos(v)

FAdd(a, b) == FRound(Ms(a.n + b.n, a.d + b.d))
FSub(a, b) == FRound(Ms(a.n - b.n, a.d - b.d))
FMulInt(a, k) == FRound(Ms(k * a.n, k * a.d))
\* Python's min(a, b): b only when b < a.
FMin(a, b) == IF FLt(b, a) THEN b ELSE a

----------------------------------------------------------------------------
(* IEEE-754 double arithmetic on the cooldowns the enemies keep in seconds. *)

\* The double n / 3840 s + d * V, V = 2^-60 / 15 s.  A cooldown is a whole
\* number of seconds less steps dt / 1000.0, and all of these are whole
\* multiples of 2^-60 s = 15 V.
Sec(n, d) == [n |-> n, d |-> d]
FromSec(k) == Sec(3840 * k, 0)

\* Spacing of the doubles around a value v >= 0, in units of V: 2^-60 below
\* 2^-7 s, doubling with each binade (supported below 8 s).
SecUlp(v) ==
    LET fit == {g \in {15, 30, 60, 120, 240, 480, 960, 1920, 3840, 7680,
                       15360} : FLe(Sec(g, 0), v)}
    IN  IF fit = {} THEN 15 ELSE CHOOSE g \in fit : \A h \in fit : h <= g

\* v in units of V, modulo m (m divides 15 * 2^12): 1/3840 s is 2^52 V, and
\* 2^52 is 2^12 modulo 15 * 2^12.
SecResidue(v, m) == ((4096 % m) * (v.n % m) + v.d) % m

\* Round-to-nearest, ties-to-even, of an exact value v >= 0.
SecRoundPos(v) ==
    LET g == SecUlp(v)
        r == SecResidue(v, g)
        down == Sec(v.n, v.d - r)
        up == Sec(v.n, v.d + g - r)
    IN  IF r = 0 THEN v
        ELSE IF 2 * r < g THEN down
        ELSE IF 2 * r > g THEN up
        ELSE IF SecResidue(down, 2 * g) = 0 THEN down ELSE up

SecRound(v) ==
    IF FLt(v, FZero) THEN FNeg(SecRoundPos(FNeg(v))) ELSE SecRoundPos(v)

SecSub(a, b) == SecRound(Sec(a.n - b.n, a.d - b.d))

----------------------------------------------------------------------------
(* Game.__init__ *)

\* 1000 / FPS, rounded to a double.
fixed_time_step == FRound(Ms((3 * 1000) \div FPS, 0))
\* fixed_time_step * 5, rounded to a double.
max_frame_time == FMulInt(fixed_time_step, MaxFrameSteps)

----------------------------------------------------------------------------
(* TimeManager (src/managers/time_manager.py) *)

Eras == {"PREHISTORIC", "MEDIEVAL", "FUTURISTIC"}
NormalTimeScale == 1000
TransitionSpeed == 2   \* transition_speed = 0.002, in thousandths

TimeManager_init ==
    [time_scale |-> NormalTimeScale,
     slow_motion_active |-> FALSE,
     slow_motion_end_time |-> 0,
     slow_motion_cooldown_end |-> 0,
     transitioning |-> FALSE,
     transition_progress |-> 0,
     current_era |-> "MEDIEVAL",
     target_era |-> "MEDIEVAL",
     current_surface |-> "None",
     target_surface |-> "None"]

\* Mutant of CanStartSlowMotion: the cooldown is not consulted.
CanStartIgnoringCooldown(tm, current_time) == ~tm.slow_motion_active

\* The condition under which start_slow_motion takes effect.
CanStartSlowMotion(tm, current_time) ==
    ~tm.slow_motion_active /\ current_time >= tm.slow_motion_cooldown_end

\* Mutant of TimeManager_start_slow_motion: a call made while slow motion
\* is active re-arms the expiry.
StartSlowMotionRearming(tm, current_time) ==
    IF ~tm.slow_motion_active /\ current_time >= tm.slow_motion_cooldown_end
    THEN [tm |-> [tm EXCEPT !.slow_motion_active = TRUE,
                            !.time_scale = SLOW_MOTION_FACTOR,
                            !.slow_motion_end_time =
                                current_time + SLOW_MOTION_DURATION],
          result |-> TRUE]
    ELSE IF tm.slow_motion_active
    THEN [tm |-> [tm EXCEPT !.slow_motion_end_time =
                                current_time + SLOW_MOTION_DURATION],
          result |-> FALSE]
    ELSE [tm |-> tm, result |-> FALSE]

\* start_slow_motion(): the TimeManager after the call, and what it returns.
TimeManager_start_slow_motion(tm, current_time) ==
    IF CanStartSlowMotion(tm, current_time)
    THEN [tm |-> [tm EXCEPT !.slow_motion_active = TRUE,
                            !.time_scale = SLOW_MOTION_FACTOR,
                            !.slow_motion_end_time =
                                current_time + SLOW_MOTION_DURATION],
          result |-> TRUE]
    ELSE [tm |-> tm, result |-> FALSE]

\* Mutant of UpdateSlowMotion: the expiry forgets to reset the time scale.
UpdateSlowMotionKeepingScale(tm, current_time) ==
    IF tm.slow_motion_active /\ current_time >= tm.slow_motion_end_time
    THEN [tm EXCEPT !.slow_motion_active = FALSE,
                    !.slow_motion_cooldown_end =
                        current_time + SLOW_MOTION_COOLDOWN]
    ELSE tm

\* Mutant of UpdateSlowMotion: the cooldown runs from the scheduled expiry,
\* not from the update that detects it.
UpdateSlowMotionCooldownFromExpiry(tm, current_time) ==
    IF tm.slow_motion_active /\ current_time >= tm.slow_motion_end_time
    THEN [tm EXCEPT !.slow_motion_active = FALSE,
                    !.time_scale = NormalTimeScale,
                    !.slow_motion_cooldown_end =
                        tm.slow_motion_end_time + SLOW_MOTION_COOLDOWN]
    ELSE tm

\* Mutant of UpdateSlowMotion: the expiry starts no cooldown.
UpdateSlowMotionWithoutCooldown(tm, current_time) ==
    IF tm.slow_motion_active /\ current_time >= tm.slow_motion_end_time
    THEN [tm EXCEPT !.slow_motion_active = FALSE,
                    !.time_scale = NormalTimeScale]
    ELSE tm

\* The slow-motion half of update().
UpdateSlowMotion(tm, current_time) ==
    IF tm.slow_motion_active /\ current_time >= tm.slow_motion_end_time
    THEN [tm EXCEPT !.slow_motion_active = FALSE,
                    !.time_scale = NormalTimeScale,
                    !.slow_motion_cooldown_end =
                        current_time + SLOW_MOTION_COOLDOWN]
    ELSE tm

\* Mutant of UpdateEraTransition: the completion of a transition also puts
\* the time scale back to normal.
UpdateEraTransitionResettingScale(tm) ==
    IF ~tm.transitioning THEN tm
    ELSE IF tm.transition_progress + TransitionSpeed >= 1000
    THEN [tm EXCEPT !.transitioning = FALSE,
                    !.transition_progress = 0,
                    !.current_era = tm.target_era,
                    !.current_surface = "None",
                    !.target_surface = "None",
                    !.time_scale = NormalTimeScale]
    ELSE [tm EXCEPT !.transition_progress = @ + TransitionSpeed]

\* The era-transition half of update(); progress is kept in thousandths.
UpdateEraTransition(tm) ==
    IF ~tm.transitioning THEN tm
    ELSE IF tm.transition_progress + TransitionSpeed >= 1000
    THEN [tm EXCEPT !.transitioning = FALSE,
                    !.transition_progress = 0,
                    !.current_era = tm.target_era,
                    !.current_surface = "None",
                    !.target_surface = "None"]
    ELSE [tm EXCEPT !.transition_progress = @ + TransitionSpeed]

\* Mutant of TimeManager_start_era_transition: a call made during a
\* transition to another era restarts the fade.
StartEraTransitionRestarting(tm, target_era) ==
    IF target_era = tm.current_era THEN tm
    ELSE [tm EXCEPT !.transitioning = TRUE,
                    !.transition_progress = 0,
                    !.target_era = target_era,
                    !.current_surface =
                        IF @ = "None" THEN "screen_copy" ELSE @,
                    !.target_surface = target_era]

\* start_era_transition(target_era, current_screen).  A surface is "None",
\* the copy of the screen, or the era whose colour fills it.
TimeManager_start_era_transition(tm, target_era) ==
    IF tm.transitioning \/ target_era = tm.current_era THEN tm
    ELSE [tm EXCEPT !.transitioning = TRUE,
                    !.transition_progress = 0,
                    !.target_era = target_era,
                    !.current_surface =
                        IF @ = "None" THEN "screen_copy" ELSE @,
                    !.target_surface = target_era]

TimeManager_update(tm, current_time) ==
    UpdateEraTransition(UpdateSlowMotion(tm, current_time))

get_time_scale(tm) == tm.time_scale

----------------------------------------------------------------------------
(* Levels (src/core/levels): spawn positions and walls.  A rectangle is    *)
(* [x, y, w, h] in whole pixels, as a pygame.Rect is.                      *)

Rect(x, y, w, h) == [x |-> x, y |-> y, w |-> w, h |-> h]

\* Level.walls of PlayingState.levels[i], in the order _setup_level adds
\* them (the order in which the sprite group is iterated).
LevelWalls(i) ==
    CASE i = 0 -> <<Rect(0, 680, 1280, 40), Rect(400, 550, 100, 20),
                    Rect(600, 450, 100, 20)>>
      [] i = 1 -> <<Rect(0, 680, 1280, 40), Rect(200, 500, 100, 20),
                    Rect(900, 500, 100, 20)>>
      [] i = 2 -> <<Rect(0, 680, 1280, 40), Rect(100, 500, 300, 20),
                    Rect(500, 500, 300, 20), Rect(900, 500, 300, 20)>>
      [] i = 3 -> <<Rect(0, 680, 1280, 40), Rect(100, 400, 200, 20),
                    Rect(500, 400, 200, 20), Rect(900, 400, 200, 20)>>
      [] i = 4 -> <<Rect(0, 680, 1280, 40), Rect(300, 500, 200, 20),
                    Rect(600, 400, 200, 20), Rect(900, 300, 200, 20),
                    Rect(0, 0, 20, 720), Rect(1260, 0, 20, 720)>>

\* Level.get_spawn_position of PlayingState.levels[i]: the first checkpoint
\* where the level has checkpoints (current_checkpoint stays 0), the
\* starting position otherwise.
get_spawn_position(i) ==
    IF i \in {3, 4} THEN [x |-> 100, y |-> 600] ELSE [x |-> 100, y |-> 100]

\* The walls group PlayingState.walls refers to: its own empty group until
\* the first _sync_sprites_with_level (OwnGroups), then those of a level.
OwnGroups == -1
GroupWalls(g) == IF g = OwnGroups THEN <<>> ELSE LevelWalls(g)

----------------------------------------------------------------------------
(* Player (src/entities/player.py): body (rect, velocity, on_ground), era, *)
(* era power and stamina.  Velocities are whole pixels per second.         *)

PLAYER_SPEED == 300
PLAYER_JUMP_FORCE == -600
GRAVITY == 1200
MAX_FALL_SPEED == 800
PlayerWidth == 32
PlayerHeight == 64
SlamVelocity == -15
PLAYER_MAX_HEALTH == 100
PLAYER_MAX_STAMINA == 100
STAMINA_REGEN_RATE == 20
PREHISTORIC_POWER_COOLDOWN == 15000
MEDIEVAL_POWER_COOLDOWN == 3000
FUTURISTIC_POWER_COOLDOWN == 60000
PowerStaminaCost == 20

\* Stamina and the era-power cooldown are doubles.  Each is kept as the
\* double of four times its value: the factor is a power of two, so it
\* commutes with every rounding, and a dt at a quarter of the speed (the
\* time scale 0.5 applied twice) is a whole number of the units of Ms.
Units(x) == FromMs(4 * x)
\* Four times the double dt.ms * (dt.permille / 1000), for the time scales
\* 1.0, 0.5 and 0.25, whose products with dt.ms are exact.
DtDouble(dt) ==
    Ms((dt.ms.n * dt.permille) \div 250, (dt.ms.d * dt.permille) \div 250)
\* The dt of a move in units of 1/3000 ms: (n thirds of a millisecond) x
\* (permille thousandths) is n * permille units.
DtUnits(dt) == dt.ms.n * dt.permille

\* Player(*spawn_pos) as PlayingState.__init__ creates it, at the spawn
\* position of the first level.
Player_init ==
    [rect |-> get_spawn_position(0),
     velocity |-> [x |-> 0, y |-> 0],
     on_ground |-> FALSE,
     health |-> PLAYER_MAX_HEALTH,
     current_era |-> "MEDIEVAL",
     era_power_cooldown |-> FZero,
     stamina |-> Units(PLAYER_MAX_STAMINA)]

\* int(coord + a / b) for whole coord and b > 0: a pygame.Rect keeps whole
\* pixels and drops the fraction of a float assigned to a coordinate.
TruncSum(coord, a, b) ==
    IF coord + (a \div b) >= 0
    THEN coord + (a \div b)
    ELSE coord - ((-a) \div b)

\* rect.x += velocity.x * dt_seconds (and the same for y): the coordinate
\* after the move, dt_seconds = dt / 1000.0 and dt in units of 1/3000 ms.
Moved(coord, v, dt) == TruncSum(coord, v * DtUnits(dt), 3000000)

\* pygame.Rect.colliderect of the player's rect at r with the wall w: the
\* rectangles overlap; touching edges do not collide.
colliderect(r, w) ==
    /\ r.x < w.x + w.w
    /\ r.x + PlayerWidth > w.x
    /\ r.y < w.y + w.h
    /\ r.y + PlayerHeight > w.y

\* The body of the loop of Player._handle_collision for one wall.
CollideWall(p, w, direction) ==
    IF ~colliderect(p.rect, w) THEN p
    ELSE IF direction = "horizontal"
    THEN [p EXCEPT !.rect.x = IF p.velocity.x > 0 THEN w.x - PlayerWidth
                                                  ELSE w.x + w.w,
                   !.velocity.x = 0]
    ELSE IF p.velocity.y > 0
    THEN [p EXCEPT !.rect.y = w.y - PlayerHeight,
                   !.velocity.y = 0,
                   !.on_ground = TRUE]
    ELSE [p EXCEPT !.rect.y = w.y + w.h,
                   !.velocity.y = 0]

\* Player._handle_collision(walls, direction).  The player after each
\* wall is bound to its value before the next wall is looked at.
RECURSIVE Player_handle_collision(_, _, _)
Player_handle_collision(p, walls, direction) ==
    IF walls = <<>> THEN p
    ELSE CHOOSE r \in {Player_handle_collision(q, Tail(walls), direction) :
                           q \in {CollideWall(p, Head(walls), direction)}} :
             TRUE

\* The two moves of Player._move, before their collisions are resolved.
HorizontalMove(p, dt) == [p EXCEPT !.rect.x = Moved(@, p.velocity.x, dt)]
VerticalMove(p, dt) == [p EXCEPT !.rect.y = Moved(@, p.velocity.y, dt)]

\* Mutant of Player_move: the vertical move and its collisions come first.
PlayerMoveVerticalFirst(p, dt, walls) ==
    CHOOSE r \in
        {Player_handle_collision(HorizontalMove(v, dt), walls,
                                 "horizontal") :
         v \in {Player_handle_collision(VerticalMove(p, dt), walls,
                                        "vertical")}} : TRUE

\* Player._move(dt, walls): the horizontal move and its collisions, then
\* the vertical move and its collisions.
Player_move(p, dt, walls) ==
    CHOOSE r \in
        {Player_handle_collision(VerticalMove(h, dt), walls, "vertical") :
         h \in {Player_handle_collision(HorizontalMove(p, dt), walls,
                                        "horizontal")}} : TRUE

\* Mutant of ApplyGravity: gravity is added whether on the ground or not.
ApplyGravityAlways(p) ==
    [p EXCEPT !.velocity.y = IF @ + GRAVITY < MAX_FALL_SPEED
                             THEN @ + GRAVITY ELSE MAX_FALL_SPEED]

\* The gravity step of Player.update.
ApplyGravity(p) ==
    IF ~p.on_ground
    THEN [p EXCEPT !.velocity.y = IF @ + GRAVITY < MAX_FALL_SPEED
                                  THEN @ + GRAVITY ELSE MAX_FALL_SPEED]
    ELSE p

\* Player.jump()
Player_jump(p) ==
    IF p.on_ground
    THEN [p EXCEPT !.velocity.y = PLAYER_JUMP_FORCE, !.on_ground = FALSE]
    ELSE p

\* Mutant of ResetPlayer: the reset leaves the velocity as it is.
ResetPlayerKeepingVelocity(p, level) ==
    [p EXCEPT !.rect = get_spawn_position(level),
              !.on_ground = FALSE]

\* PlayingState._reset_game_state, the part that writes the player.
ResetPlayer(p, level) ==
    [p EXCEPT !.rect = get_spawn_position(level),
              !.velocity = [x |-> 0, y |-> 0],
              !.on_ground = FALSE]

\* The continuous-input part of PlayingState.handle_event: held is what
\* pygame.key.get_pressed() reports of the keys A and D.
HeldKeys == {"none", "a", "d", "both"}
SetIntent(p, held) ==
    [p EXCEPT !.velocity.x = IF held \in {"a", "both"} THEN -PLAYER_SPEED
                             ELSE IF held = "d" THEN PLAYER_SPEED
                             ELSE 0]

\* Player.era_cooldowns
era_cooldowns(era) ==
    CASE era = "PREHISTORIC" -> PREHISTORIC_POWER_COOLDOWN
      [] era = "MEDIEVAL" -> MEDIEVAL_POWER_COOLDOWN
      [] era = "FUTURISTIC" -> FUTURISTIC_POWER_COOLDOWN

\* Player.take_damage(amount)
Player_take_damage(p, amount) ==
    [p EXCEPT !.health = IF @ - amount > 0 THEN @ - amount ELSE 0]

\* Player.heal(amount)
Player_heal(p, amount) ==
    [p EXCEPT !.health = IF @ + amount < PLAYER_MAX_HEALTH
                         THEN @ + amount ELSE PLAYER_MAX_HEALTH]

\* Mutant of Player_switch_era: the era moves one place round the cycle
\* instead of jumping to the era asked for.
SwitchEraOnePlace(p, new_era) ==
    [p EXCEPT !.current_era =
                  CASE @ = "PREHISTORIC" -> "MEDIEVAL"
                    [] @ = "MEDIEVAL" -> "FUTURISTIC"
                    [] @ = "FUTURISTIC" -> "PREHISTORIC",
              !.era_power_cooldown = FZero]

\* Mutant of Player_switch_era: the era-power cooldown survives the switch.
SwitchEraKeepingCooldown(p, new_era) == [p EXCEPT !.current_era = new_era]

\* Player.switch_era(new_era)
Player_switch_era(p, new_era) ==
    [p EXCEPT !.current_era = new_era, !.era_power_cooldown = FZero]

\* Mutant of Player_use_era_power: the power is used whatever stamina is
\* left.
UseEraPowerIgnoringStamina(p) ==
    IF FLe(p.era_power_cooldown, FZero)
    THEN [p EXCEPT !.velocity.y = IF p.current_era = "PREHISTORIC"
                                  THEN SlamVelocity ELSE @,
                   !.stamina = FSub(@, Units(PowerStaminaCost)),
                   !.era_power_cooldown = Units(era_cooldowns(p.current_era))]
    ELSE p

\* Player.use_era_power()
Player_use_era_power(p) ==
    IF /\ FLe(p.era_power_cooldown, FZero)
       /\ FLe(Units(PowerStaminaCost), p.stamina)
    THEN [p EXCEPT !.velocity.y = IF p.current_era = "PREHISTORIC"
                                  THEN SlamVelocity ELSE @,
                   !.stamina = FSub(@, Units(PowerStaminaCost)),
                   !.era_power_cooldown = Units(era_cooldowns(p.current_era))]
    ELSE p

\* Player.update(dt, walls): gravity, the move with its collisions, the
\* stamina regeneration and the cooldown timer.
Player_update(p, dt, walls) ==
    [(CHOOSE r \in {Player_move(q, dt, walls) : q \in {ApplyGravity(p)}} :
          TRUE) EXCEPT
       !.stamina =
           IF FLt(@, Units(PLAYER_MAX_STAMINA))
           THEN FMin(Units(PLAYER_MAX_STAMINA),
                     FAdd(@, FMulInt(DtDouble(dt), STAMINA_REGEN_RATE)))
           ELSE @,
       !.era_power_cooldown =
           IF FLt(FZero, @)
           THEN IF FLt(FZero, FSub(@, DtDouble(dt)))
                THEN FSub(@, DtDouble(dt)) ELSE FZero
           ELSE @]

----------------------------------------------------------------------------
(* Enemies (src/entities/enemies.py).  An enemy is its rect (whole pixels, *)
(* 32 x 32), its health, the signs of its velocity and the cooldowns that  *)
(* decide its moves.  Its attack cooldown, the projectiles it fires into a *)
(* group of its own, max_health and FuturisticEnemy.last_positions are     *)
(* read by no operation and are left out; is_frozen is never set.          *)

EnemySize == 32
ChargeRange == 200
CHARGE_COOLDOWN == 3
ATTACK_RANGE == 300
TeleportRange == 100
TeleportDistance == 300
TELEPORT_COOLDOWN == 5
CollisionDamage == 10

\* The health each class hands to Enemy.__init__.
EnemyHealth(kind) ==
    CASE kind = "prehistoric" -> 150
      [] kind = "medieval" -> 80
      [] kind = "futuristic" -> 60

\* Enemy.__init__ of the class `kind` at (x, y).
Enemy(kind, x, y) ==
    [kind |-> kind,
     rect |-> [x |-> x, y |-> y],
     health |-> EnemyHealth(kind),
     velocity |-> [x |-> 0, y |-> 0],
     is_charging |-> FALSE,
     charge_cooldown |-> FZero,
     teleport_cooldown |-> FZero]

\* Level.enemies of PlayingState.levels[i], in the order _setup_level adds
\* them.
LevelEnemies(i) ==
    CASE i = 0 -> <<>>
      [] i = 1 -> <<Enemy("medieval", 600, 630)>>
      [] i = 2 -> <<Enemy("prehistoric", 250, 450),
                    Enemy("medieval", 650, 450),
                    Enemy("futuristic", 1050, 450)>>
      [] i = 3 -> <<Enemy("prehistoric", 200, 350),
                    Enemy("medieval", 600, 350),
                    Enemy("futuristic", 1000, 350)>>
      [] i = 4 -> <<Enemy("prehistoric", 400, 450),
                    Enemy("medieval", 700, 350),
                    Enemy("futuristic", 1000, 250)>>

\* Enemy.take_damage(amount), the health it leaves.
Enemy_take_damage(e, amount) ==
    [e EXCEPT !.health = IF @ - amount > 0 THEN @ - amount ELSE 0]

\* Enemy.take_damage(amount) on the i-th enemy of a group: at health <= 0
\* the enemy calls kill() and leaves every group that holds it, the others
\* keeping their order.  Nothing in the game calls it.
EnemyGroup_take_damage(enemies, i, amount) ==
    LET hurt == Enemy_take_damage(enemies[i], amount)
    IN  IF hurt.health <= 0
        THEN SubSeq(enemies, 1, i - 1) \o SubSeq(enemies, i + 1, Len(enemies))
        ELSE [enemies EXCEPT ![i] = hurt]

\* Player.get_position(): (rect.centerx, rect.centery).
Player_get_position(p) ==
    [x |-> p.rect.x + PlayerWidth \div 2, y |-> p.rect.y + PlayerHeight \div 2]

\* dt / 1000.0 for the dt of a gameplay step, fixed_time_step at the time
\* scale 1, 0.5 or 0.25: a quarter of the double of 1/60 s is 16/3840 s - V.
DtSeconds(dt) == Sec(16 * (dt.permille \div 250), -(dt.permille \div 250))

Sgn(k) == IF k > 0 THEN 1 ELSE IF k < 0 THEN -1 ELSE 0

\* player_pos minus the centre of the enemy's rect.
Offset(e, player_pos) ==
    [x |-> player_pos.x - (e.rect.x + EnemySize \div 2),
     y |-> player_pos.y - (e.rect.y + EnemySize \div 2)]

\* math.sqrt(dx * dx + dy * dy) < range, for whole dx, dy and range.
Within(o, range) == o.x * o.x + o.y * o.y < range * range

\* rect.x += velocity.x * dt_seconds (and the same for y) with a velocity
\* of sign v: an enemy moves less than a pixel a step, and the rect drops
\* the fraction of the sum.
Stepped(coord, v) ==
    IF v < 0 /\ coord > 0 THEN coord - 1
    ELSE IF v > 0 /\ coord < 0 THEN coord + 1
    ELSE coord

\* The enemy after its velocity is set to the signs v and its rect is moved.
Advance(e, v) ==
    [e EXCEPT !.velocity = v,
              !.rect = [x |-> Stepped(e.rect.x, v.x),
                        y |-> Stepped(e.rect.y, v.y)]]

\* PrehistoricEnemy.update(dt, player_pos)
PrehistoricEnemy_update(e, dt, player_pos) ==
    IF FLt(FZero, e.charge_cooldown)
    THEN [e EXCEPT !.charge_cooldown = SecSub(@, DtSeconds(dt))]
    ELSE LET o == Offset(e, player_pos)
             charge == Within(o, ChargeRange) /\ ~e.is_charging
             v == IF o.x = 0 /\ o.y = 0 THEN e.velocity
                  ELSE [x |-> Sgn(o.x), y |-> Sgn(o.y)]
         IN  Advance([e EXCEPT !.is_charging = @ \/ charge,
                               !.charge_cooldown =
                                   IF charge THEN FromSec(CHARGE_COOLDOWN)
                                   ELSE @],
                     v)

\* MedievalEnemy.update(dt, player_pos) divides by a distance of zero.
MedievalEnemy_raises(e, player_pos) ==
    Offset(e, player_pos) = [x |-> 0, y |-> 0]

\* MedievalEnemy.update(dt, player_pos): away from a player nearer than
\* half the attack range, towards one beyond it, at rest in between.
MedievalEnemy_update(e, dt, player_pos) ==
    LET o == Offset(e, player_pos)
    IN  IF 4 * (o.x * o.x + o.y * o.y) < ATTACK_RANGE * ATTACK_RANGE
        THEN Advance(e, [x |-> -Sgn(o.x), y |-> -Sgn(o.y)])
        ELSE IF o.x * o.x + o.y * o.y > ATTACK_RANGE * ATTACK_RANGE
        THEN Advance(e, [x |-> Sgn(o.x), y |-> Sgn(o.y)])
        ELSE Advance(e, [x |-> 0, y |-> 0])

\* Where int(p + f(angle) * 300) differs from the whole p + m it stands
\* for, f(angle) * 300 being a double next to m: the direction (a, b) from
\* the player to the enemy in lowest terms, the axis, the centres p from lo
\* to hi concerned and the difference.
TeleportSlack ==
    {<<-24, -7, "y", -428, 83, 1>>,  <<-24, 7, "y", -83, 428, -1>>,
     <<-7, -24, "x", -172, 83, 1>>,  <<-7, 24, "x", -172, 83, 1>>,
     <<-3, -4, "x", -76, 179, 1>>,   <<-3, -4, "y", 241, 752, -1>>,
     <<-3, 4, "x", -76, 179, 1>>,    <<-3, 4, "y", -752, -241, 1>>,
     <<-1, 0, "y", -512, -1, 1>>,    <<0, -1, "x", -256, -1, 1>>,
     <<0, 1, "x", -256, -1, 1>>,     <<3, -4, "x", -436, -181, 1>>,
     <<3, -4, "y", -16, 239, 1>>,    <<3, 4, "x", -436, -181, 1>>,
     <<3, 4, "y", -239, 16, -1>>,    <<7, -24, "x", -212, -85, 1>>,
     <<7, 24, "x", -212, -85, 1>>,   <<24, -7, "y", 85, 212, -1>>,
     <<24, 7, "y", -212, -85, 1>>}

\* int(p + 300 * num / sqrt(s)), the coordinate FuturisticEnemy.teleport
\* assigns to a centre: num is the enemy's offset from the player along the
\* axis and s the square of their distance, 0 < s < 100 * 100.
TeleportCentre(p, num, s) ==
    LET far == TeleportDistance * TeleportDistance * num * num
        below == CHOOSE m \in 0..TeleportDistance :
                     /\ m * m * s <= far
                     /\ (m + 1) * (m + 1) * s > far
        whole == below * below * s = far
        floor == IF num >= 0 \/ whole THEN p + Sgn(num) * below
                 ELSE p - below - 1
    IN  IF floor >= 0 \/ whole THEN floor ELSE floor + 1

\* FuturisticEnemy.teleport(player_pos)
FuturisticEnemy_teleport(e, player_pos) ==
    LET a == -Offset(e, player_pos).x
        b == -Offset(e, player_pos).y
        slack(axis, p) ==
            LET hits == {t \in TeleportSlack :
                            /\ t[3] = axis /\ t[4] <= p /\ p <= t[5]
                            /\ \E k \in 1..TeleportRange :
                                  a = k * t[1] /\ b = k * t[2]}
            IN  IF hits = {} THEN 0 ELSE (CHOOSE t \in hits : TRUE)[6]
        centerx == IF a = 0 /\ b = 0 THEN player_pos.x + TeleportDistance
                   ELSE TeleportCentre(player_pos.x, a, a * a + b * b)
                            + slack("x", player_pos.x)
        centery == IF a = 0 /\ b = 0 THEN player_pos.y
                   ELSE TeleportCentre(player_pos.y, b, a * a + b * b)
                            + slack("y", player_pos.y)
    IN  [e EXCEPT !.rect = [x |-> centerx - EnemySize \div 2,
                            y |-> centery - EnemySize \div 2]]

\* FuturisticEnemy.update(dt, player_pos)
FuturisticEnemy_update(e, dt, player_pos) ==
    LET cooled == IF FLt(FZero, e.teleport_cooldown)
                  THEN SecSub(e.teleport_cooldown, DtSeconds(dt))
                  ELSE e.teleport_cooldown
        o == Offset(e, player_pos)
    IN  IF Within(o, TeleportRange) /\ FLe(cooled, FZero)
        THEN [FuturisticEnemy_teleport(e, player_pos) EXCEPT
                 !.teleport_cooldown = FromSec(TELEPORT_COOLDOWN)]
        ELSE Advance([e EXCEPT !.teleport_cooldown = cooled],
                     IF o.x = 0 /\ o.y = 0 THEN e.velocity
                     ELSE [x |-> Sgn(o.x), y |-> Sgn(o.y)])

\* enemy.update(dt, player_pos) of the enemy's class.
Enemy_update(e, dt, player_pos) ==
    CASE e.kind = "prehistoric" -> PrehistoricEnemy_update(e, dt, player_pos)
      [] e.kind = "medieval" -> MedievalEnemy_update(e, dt, player_pos)
      [] e.kind = "futuristic" -> FuturisticEnemy_update(e, dt, player_pos)

\* pygame.sprite.spritecollide(player, enemies, False) is not empty: the
\* player's rect overlaps the rect of an enemy.
Hits(p, enemies) ==
    \E i \in DOMAIN enemies :
        /\ p.rect.x < enemies[i].rect.x + EnemySize
        /\ p.rect.x + PlayerWidth > enemies[i].rect.x
        /\ p.rect.y < enemies[i].rect.y + EnemySize
        /\ p.rect.y + PlayerHeight > enemies[i].rect.y

----------------------------------------------------------------------------
(* Game modes (src/managers/state_manager.py) *)

GameState == {"MENU", "PLAYING", "PAUSED", "ERA_TRANSITION"}

Keys == {"K_UP", "K_DOWN", "K_RETURN", "K_ESCAPE", "K_SPACE", "K_q", "K_z",
         "K_e", "K_LSHIFT", "K_x"}
\* An event, with what pygame.key.get_pressed() reports of the movement
\* keys A and D while it is handled.
KeyDown(k) == [type |-> "KEYDOWN", key |-> k, held |-> "none"]
KeyUp(k) == [type |-> "KEYUP", key |-> k, held |-> "none"]
QuitEvent == [type |-> "QUIT", key |-> "none", held |-> "none"]
Events == {KeyDown(k) : k \in Keys} \cup {KeyUp("K_ESCAPE"), QuitEvent}
\* Events delivered while a movement key is held down.
Holding(e, held) == [e EXCEPT !.held = held]
MoveEvents ==
    {Holding(e, held) :
        e \in {KeyDown("K_x"), KeyDown("K_SPACE"), KeyUp("K_ESCAPE")},
        held \in HeldKeys \ {"none"}}

NumMenuOptions == 2    \* len(menu_options) of MenuState and of PausedState
NumLevels == 5         \* len(PlayingState.levels)
EraFadeSpeed == 512    \* EraTransitionState.fade_speed, alpha per second
AlphaMax == 255 * 15   \* alpha is kept in fifteenths

\* A dt in milliseconds: the fixed step times a scale in thousandths.
Dt(ms, permille) == [ms |-> ms, permille |-> permille]
ScaleDt(dt, scale) == Dt(dt.ms, (dt.permille * scale) \div 1000)

\* fade_speed * (dt / 1000), in fifteenths of an alpha unit.
FadeAmount(dt) == (EraFadeSpeed * dt.ms.n * dt.permille) \div 200000

\* Mutant of NextEra: the era after FUTURISTIC is MEDIEVAL.
NextEraSkippingPrehistoric(era) ==
    CASE era = "PREHISTORIC" -> "MEDIEVAL"
      [] era = "MEDIEVAL" -> "FUTURISTIC"
      [] era = "FUTURISTIC" -> "MEDIEVAL"

NextEra(era) ==
    CASE era = "PREHISTORIC" -> "MEDIEVAL"
      [] era = "MEDIEVAL" -> "FUTURISTIC"
      [] era = "FUTURISTIC" -> "PREHISTORIC"

PrevEra(era) ==
    CASE era = "PREHISTORIC" -> "FUTURISTIC"
      [] era = "MEDIEVAL" -> "PREHISTORIC"
      [] era = "FUTURISTIC" -> "MEDIEVAL"

NoCall == [op |-> "none", result |-> FALSE]

\* Mutant of StartGame: the level is selected and its groups are taken,
\* but the player stays where the last run left it.
StartGameKeepingPlayer(demo) ==
    LET level == IF demo THEN NumLevels - 1 ELSE 0
    IN  /\ playing' = [playing EXCEPT !.current_level_index = level,
                                      !.current_level = level,
                                      !.groups = level]
        /\ player' = player
        /\ current_state' = "PLAYING"

\* GameStateManager.start_game(demo)
StartGame(demo) ==
    LET level == IF demo THEN NumLevels - 1 ELSE 0
    IN  /\ playing' = [playing EXCEPT !.current_level_index = level,
                                      !.current_level = level,
                                      !.groups = level]
        /\ player' = ResetPlayer(player, level)
        /\ current_state' = "PLAYING"

\* GameStateManager.start_era_transition(target_era)
StartEraTransition(target_era) ==
    /\ era_state' = [target_era |-> target_era, transition_alpha |-> 0,
                     fading_in |-> TRUE]
    /\ current_state' = "ERA_TRANSITION"

\* MenuState.handle_event
MenuHandleEvent(e) ==
    /\ UNCHANGED <<time_manager, paused_selected, era_state>>
    /\ last_call' = NoCall
    /\ IF e.type = "KEYDOWN" /\ e.key = "K_UP"
       THEN /\ menu_selected' = (menu_selected - 1) % NumMenuOptions
            /\ UNCHANGED <<current_state, playing, player>>
       ELSE IF e.type = "KEYDOWN" /\ e.key = "K_DOWN"
       THEN /\ menu_selected' = (menu_selected + 1) % NumMenuOptions
            /\ UNCHANGED <<current_state, playing, player>>
       ELSE IF e.type = "KEYDOWN" /\ e.key = "K_RETURN"
       THEN /\ StartGame(menu_selected = 1)
            /\ UNCHANGED menu_selected
       ELSE UNCHANGED <<menu_selected, current_state, playing, player>>

\* PlayingState.handle_event: the key pressed, then the continuous input,
\* which sets the horizontal velocity whatever the event was.
PlayingHandleEvent(e) ==
    /\ UNCHANGED <<menu_selected, paused_selected, playing>>
    /\ IF e.type = "KEYDOWN" /\ e.key = "K_ESCAPE"
       THEN /\ current_state' = "PAUSED"
            /\ last_call' = NoCall
            /\ player' = SetIntent(player, e.held)
            /\ UNCHANGED <<time_manager, era_state>>
       ELSE IF e.type = "KEYDOWN" /\ e.key = "K_SPACE"
       THEN /\ player' = SetIntent(Player_jump(player), e.held)
            /\ last_call' = NoCall
            /\ UNCHANGED <<current_state, time_manager, era_state>>
       ELSE IF e.type = "KEYDOWN" /\ e.key = "K_q"
       THEN /\ StartEraTransition(NextEra(player.current_era))
            /\ last_call' = NoCall
            /\ player' = SetIntent(player, e.held)
            /\ UNCHANGED time_manager
       ELSE IF e.type = "KEYDOWN" /\ e.key = "K_z"
       THEN /\ StartEraTransition(PrevEra(player.current_era))
            /\ last_call' = NoCall
            /\ player' = SetIntent(player, e.held)
            /\ UNCHANGED time_manager
       ELSE IF e.type = "KEYDOWN" /\ e.key = "K_e"
       THEN /\ player' = SetIntent(Player_use_era_power(player), e.held)
            /\ last_call' = NoCall
            /\ UNCHANGED <<current_state, time_manager, era_state>>
       ELSE IF e.type = "KEYDOWN" /\ e.key = "K_LSHIFT"
       THEN LET r == TimeManager_start_slow_motion(time_manager, now)
            IN  /\ time_manager' = r.tm
                /\ last_call' = [op |-> "start_slow_motion",
                                 result |-> r.result]
                /\ player' = SetIntent(player, e.held)
                /\ UNCHANGED <<current_state, era_state>>
       ELSE /\ last_call' = NoCall
            /\ player' = SetIntent(player, e.held)
            /\ UNCHANGED <<current_state, time_manager, era_state>>

\* Mutant of PausedHandleEvent: RETURN resumes whatever option is selected.
PausedReturnAlwaysResumes(e) ==
    /\ UNCHANGED <<time_manager, menu_selected, era_state, playing, player>>
    /\ last_call' = NoCall
    /\ IF e.type = "KEYDOWN" /\ e.key = "K_ESCAPE"
       THEN current_state' = "PLAYING" /\ UNCHANGED paused_selected
       ELSE IF e.type = "KEYDOWN" /\ e.key = "K_UP"
       THEN /\ paused_selected' = (paused_selected - 1) % NumMenuOptions
            /\ UNCHANGED current_state
       ELSE IF e.type = "KEYDOWN" /\ e.key = "K_DOWN"
       THEN /\ paused_selected' = (paused_selected + 1) % NumMenuOptions
            /\ UNCHANGED current_state
       ELSE IF e.type = "KEYDOWN" /\ e.key = "K_RETURN"
       THEN current_state' = "PLAYING" /\ UNCHANGED paused_selected
       ELSE UNCHANGED <<current_state, paused_selected>>

\* PausedState.handle_event
PausedHandleEvent(e) ==
    /\ UNCHANGED <<time_manager, menu_selected, era_state, playing, player>>
    /\ last_call' = NoCall
    /\ IF e.type = "KEYDOWN" /\ e.key = "K_ESCAPE"
       THEN current_state' = "PLAYING" /\ UNCHANGED paused_selected
       ELSE IF e.type = "KEYDOWN" /\ e.key = "K_UP"
       THEN /\ paused_selected' = (paused_selected - 1) % NumMenuOptions
            /\ UNCHANGED current_state
       ELSE IF e.type = "KEYDOWN" /\ e.key = "K_DOWN"
       THEN /\ paused_selected' = (paused_selected + 1) % NumMenuOptions
            /\ UNCHANGED current_state
       ELSE IF e.type = "KEYDOWN" /\ e.key = "K_RETURN"
       THEN /\ current_state' = IF paused_selected = 0 THEN "PLAYING"
                                                        ELSE "MENU"
            /\ UNCHANGED paused_selected
       ELSE UNCHANGED <<current_state, paused_selected>>

\* Mutant of EraTransitionHandleEvent: an era key restarts the fade towards
\* the era after (Q) or before (Z) the player's.
EraTransitionRestartable(e) ==
    /\ last_call' = NoCall
    /\ era_state' =
          IF e.type = "KEYDOWN" /\ e.key = "K_q"
          THEN [target_era |-> NextEra(player.current_era),
                transition_alpha |-> 0, fading_in |-> TRUE]
          ELSE IF e.type = "KEYDOWN" /\ e.key = "K_z"
          THEN [target_era |-> PrevEra(player.current_era),
                transition_alpha |-> 0, fading_in |-> TRUE]
          ELSE era_state
    /\ UNCHANGED <<time_manager, current_state, menu_selected,
                   paused_selected, playing, player>>

\* Mutant of EraTransitionHandleEvent: ESCAPE pauses during the fade.
EraTransitionPausable(e) ==
    /\ last_call' = NoCall
    /\ current_state' = IF e.type = "KEYDOWN" /\ e.key = "K_ESCAPE"
                        THEN "PAUSED" ELSE current_state
    /\ UNCHANGED <<time_manager, menu_selected, paused_selected, era_state,
                   playing, player>>

\* BaseState.handle_event, inherited by EraTransitionState
EraTransitionHandleEvent(e) ==
    /\ last_call' = NoCall
    /\ UNCHANGED <<time_manager, current_state, menu_selected,
                   paused_selected, era_state, playing, player>>

\* Mutant of StateManager_handle_event: while paused, events still go to the
\* Playing handler that was current before the pause.
DispatchToPlayingWhilePaused(e) ==
    CASE current_state = "MENU" -> MenuHandleEvent(e)
      [] current_state = "PLAYING" -> PlayingHandleEvent(e)
      [] current_state = "PAUSED" -> PlayingHandleEvent(e)
      [] current_state = "ERA_TRANSITION" -> EraTransitionHandleEvent(e)

\* GameStateManager.handle_event
StateManager_handle_event(e) ==
    CASE current_state = "MENU" -> MenuHandleEvent(e)
      [] current_state = "PLAYING" -> PlayingHandleEvent(e)
      [] current_state = "PAUSED" -> PausedHandleEvent(e)
      [] current_state = "ERA_TRANSITION" -> EraTransitionHandleEvent(e)

\* Mutant of NextLevel: the index advances past the last level.
NextLevelUnguarded(p) ==
    [p EXCEPT !.current_level_index = @ + 1,
              !.current_level = IF p.current_level_index < NumLevels - 1
                                THEN p.current_level_index + 1
                                ELSE @,
              !.groups = IF p.current_level_index < NumLevels - 1
                         THEN p.current_level_index + 1
                         ELSE @]

\* PlayingState.next_level
NextLevel(p) ==
    IF p.current_level_index < NumLevels - 1
    THEN [p EXCEPT !.current_level_index = @ + 1,
                   !.current_level = p.current_level_index + 1,
                   !.groups = p.current_level_index + 1]
    ELSE p

\* The enemies group PlayingState.enemies refers to: its own empty group
\* until the first _sync_sprites_with_level, then that of a level.
GroupEnemies(pl) == IF pl.groups = OwnGroups THEN <<>> ELSE pl.levels[pl.groups]

\* for enemy in self.enemies: enemy.update(scaled_dt, player_pos)
UpdatedEnemies(enemies, dt, player_pos) ==
    CHOOSE r \in {[i \in DOMAIN enemies |->
                       Enemy_update(enemies[i], dt, pos)] :
                  pos \in {player_pos}} : TRUE

\* PlayingState._handle_collisions: Level.projectiles stays empty, so
\* groupcollide removes nothing; an enemy on the player costs 10 health.
PlayingState_handle_collisions(p, enemies) ==
    IF Hits(p, enemies) THEN Player_take_damage(p, CollisionDamage) ELSE p

\* PlayingState.update with the time scale `scale`: dt is scaled once more,
\* the player is updated with the result, then the enemies of the level
\* with the player's new position, then the collisions are handled, and,
\* Level.is_completed() being always true, the next level is entered.
\* Level.update only runs the timer of the message on screen.
PlayingState_update(pl, p, dt, scale) ==
    LET scaled_dt == ScaleDt(dt, scale)
        moved(updated) ==
            UpdatedEnemies(GroupEnemies(pl), scaled_dt,
                           Player_get_position(updated))
        checked(updated, enemies) ==
            LET hurt == PlayingState_handle_collisions(updated, enemies)
                synced == IF pl.groups = OwnGroups THEN pl
                          ELSE [pl EXCEPT !.levels[pl.groups] = enemies]
            IN  [player |-> IF pl.current_level_index < NumLevels - 1
                            THEN ResetPlayer(hurt, pl.current_level_index + 1)
                            ELSE hurt,
                 playing |-> [NextLevel(synced) EXCEPT
                                 !.scaled_dt = scaled_dt]]
    IN  CHOOSE r \in
            {checked(updated, enemies) :
                <<updated, enemies>> \in
                    {<<u, moved(u)>> :
                        u \in {Player_update(p, scaled_dt,
                                             GroupWalls(pl.groups))}}} :
            TRUE

\* An enemy.update of PlayingState.update raises (ZeroDivisionError), which
\* ends the program: the player's centre is on that of a medieval enemy.
PlayingState_update_raises(pl, p, dt, scale) ==
    LET updated == Player_update(p, ScaleDt(dt, scale), GroupWalls(pl.groups))
    IN  \E i \in DOMAIN GroupEnemies(pl) :
            /\ GroupEnemies(pl)[i].kind = "medieval"
            /\ MedievalEnemy_raises(GroupEnemies(pl)[i],
                                    Player_get_position(updated))

\* PlayingState.update as the mode update: it runs inside fixed_update,
\* after TimeManager.update, so the scale it reads is the updated one.
PlayingUpdate(dt) ==
    LET after == PlayingState_update(playing, player, dt,
                                     get_time_scale(time_manager'))
    IN  /\ ~PlayingState_update_raises(playing, player, dt,
                                       get_time_scale(time_manager'))
        /\ player' = after.player
        /\ playing' = after.playing
        /\ UNCHANGED <<current_state, era_state>>

\* Mutant of EraTransitionUpdate: the fade forwards every update to the
\* gameplay as well.
EraTransitionUpdateForwarding(dt) ==
    LET after == PlayingState_update(playing, player, dt,
                                     get_time_scale(time_manager'))
        moved == after.player
    IN
    /\ playing' = after.playing
    /\ IF era_state.fading_in
       THEN LET a == IF era_state.transition_alpha + FadeAmount(dt) < AlphaMax
                     THEN era_state.transition_alpha + FadeAmount(dt)
                     ELSE AlphaMax
            IN  IF a >= AlphaMax
                THEN /\ era_state' = [era_state EXCEPT
                                          !.transition_alpha = a,
                                          !.fading_in = FALSE]
                     /\ player' = Player_switch_era(moved,
                                                    era_state.target_era)
                     /\ UNCHANGED current_state
                ELSE /\ era_state' = [era_state EXCEPT
                                          !.transition_alpha = a]
                     /\ player' = moved
                     /\ UNCHANGED current_state
       ELSE LET a == IF era_state.transition_alpha - FadeAmount(dt) > 0
                     THEN era_state.transition_alpha - FadeAmount(dt)
                     ELSE 0
            IN  /\ era_state' = [era_state EXCEPT !.transition_alpha = a]
                /\ current_state' = IF a <= 0 THEN "PLAYING"
                                              ELSE current_state
                /\ player' = moved

\* Mutant of EraTransitionUpdate: the fade ends at its peak, without the
\* falling phase.
EraTransitionUpdateEndsAtPeak(dt) ==
    LET a == IF era_state.transition_alpha + FadeAmount(dt) < AlphaMax
             THEN era_state.transition_alpha + FadeAmount(dt)
             ELSE AlphaMax
    IN  IF a >= AlphaMax
        THEN /\ era_state' = [era_state EXCEPT !.transition_alpha = a,
                                               !.fading_in = FALSE]
             /\ player' = Player_switch_era(player, era_state.target_era)
             /\ current_state' = "PLAYING"
             /\ UNCHANGED playing
        ELSE /\ era_state' = [era_state EXCEPT !.transition_alpha = a]
             /\ UNCHANGED <<current_state, playing, player>>

\* EraTransitionState.update
EraTransitionUpdate(dt) ==
    IF era_state.fading_in
    THEN LET a == IF era_state.transition_alpha + FadeAmount(dt) < AlphaMax
                  THEN era_state.transition_alpha + FadeAmount(dt)
                  ELSE AlphaMax
         IN  IF a >= AlphaMax
             THEN /\ era_state' = [era_state EXCEPT !.transition_alpha = a,
                                                    !.fading_in = FALSE]
                  /\ player' = Player_switch_era(player,
                                                 era_state.target_era)
                  /\ UNCHANGED <<current_state, playing>>
             ELSE /\ era_state' = [era_state EXCEPT !.transition_alpha = a]
                  /\ UNCHANGED <<current_state, playing, player>>
    ELSE LET a == IF era_state.transition_alpha - FadeAmount(dt) > 0
                  THEN era_state.transition_alpha - FadeAmount(dt)
                  ELSE 0
         IN  /\ era_state' = [era_state EXCEPT !.transition_alpha = a]
             /\ current_state' = IF a <= 0 THEN "PLAYING" ELSE current_state
             /\ UNCHANGED <<playing, player>>

\* GameStateManager.update: MenuState.update and PausedState.update only
\* animate the title and overlay alpha, which are not modelled.
StateManager_update(dt) ==
    /\ update_dt' = dt
    /\ UNCHANGED <<menu_selected, paused_selected>>
    /\ CASE current_state = "MENU" ->
                UNCHANGED <<current_state, era_state, playing, player>>
         [] current_state = "PLAYING" -> PlayingUpdate(dt)
         [] current_state = "PAUSED" ->
                UNCHANGED <<current_state, era_state, playing, player>>
         [] current_state = "ERA_TRANSITION" -> EraTransitionUpdate(dt)

----------------------------------------------------------------------------
(* Game (src/main.py) *)

\* The step-size dt that Game.run hands to fixed_update.
StepDt == Dt(fixed_time_step, 1000)

\* Mutant of DrainDone: the loop runs only while accumulated_time is above
\* the fixed step.
DrainDoneAtFixedStep == FLe(accumulated_time, fixed_time_step)

\* The drain loop's condition, negated: the while loop of Game.run exits.
DrainDone == FLt(accumulated_time, fixed_time_step)

\* One event of Game.handle_events: the QUIT check, then the dispatch to
\* the current mode.
HandleEvent(e) ==
    /\ pc = "events"
    /\ events_handled < MaxEventsPerFrame
    /\ events_handled' = events_handled + 1
    /\ running' = IF e.type = "QUIT" THEN FALSE ELSE running
    /\ StateManager_handle_event(e)
    /\ UNCHANGED <<pc, accumulated_time, frame_time, steps_in_pass,
                   interpolation, now, update_dt>>
    /\ UNCHANGED save_dir

\* Game.handle_events returns: the event list is exhausted.
EndEvents ==
    /\ pc = "events"
    /\ pc' = "tick"
    /\ events_handled' = 0
    /\ UNCHANGED <<running, accumulated_time, frame_time, steps_in_pass,
                   interpolation, last_call>>
    /\ UNCHANGED tmVars
    /\ UNCHANGED smVars
    /\ UNCHANGED save_dir

\* Mutant of ClockTick: while paused the frame time is not accumulated.
ClockTickFrozenWhilePaused(ft) ==
    /\ pc = "tick"
    /\ frame_time' = FMin(ft, max_frame_time)
    /\ accumulated_time' = IF current_state = "PAUSED"
                            THEN accumulated_time
                            ELSE FAdd(accumulated_time, frame_time')
    /\ steps_in_pass' = 0
    /\ pc' = "drain"
    /\ UNCHANGED <<running, interpolation, events_handled, last_call>>
    /\ UNCHANGED tmVars
    /\ UNCHANGED smVars
    /\ UNCHANGED save_dir

\* Mutant of ClockTick: the frame time is accumulated without the clamp.
ClockTickUnclamped(ft) ==
    /\ pc = "tick"
    /\ frame_time' = ft
    /\ accumulated_time' = FAdd(accumulated_time, frame_time')
    /\ steps_in_pass' = 0
    /\ pc' = "drain"
    /\ UNCHANGED <<running, interpolation, events_handled, last_call>>
    /\ UNCHANGED tmVars
    /\ UNCHANGED smVars
    /\ UNCHANGED save_dir

\* clock.tick returned ft: clamp and accumulate.
ClockTick(ft) ==
    /\ pc = "tick"
    /\ frame_time' = FMin(ft, max_frame_time)
    /\ accumulated_time' = FAdd(accumulated_time, frame_time')
    /\ steps_in_pass' = 0
    /\ pc' = "drain"
    /\ UNCHANGED <<running, interpolation, events_handled, last_call>>
    /\ UNCHANGED tmVars
    /\ UNCHANGED smVars
    /\ UNCHANGED save_dir

\* Mutant of Game_fixed_update: time effects are updated only while playing.
FixedUpdateTimeEffectsOnlyWhenPlaying(dt) ==
    LET tm == IF current_state = "PLAYING"
              THEN TimeManager_update(time_manager, now)
              ELSE time_manager
    IN  /\ time_manager' = tm
        /\ StateManager_update(ScaleDt(dt, get_time_scale(tm)))

\* Mutant of Game_fixed_update: time effects are updated in every mode but
\* Playing.
FixedUpdateTimeEffectsNotWhenPlaying(dt) ==
    LET tm == IF current_state = "PLAYING"
              THEN time_manager
              ELSE TimeManager_update(time_manager, now)
    IN  /\ time_manager' = tm
        /\ StateManager_update(ScaleDt(dt, get_time_scale(tm)))

\* Mutant of Game_fixed_update: the time scale is read before the time
\* effects are updated.
FixedUpdateScaleBeforeTimeEffects(dt) ==
    /\ time_manager' = TimeManager_update(time_manager, now)
    /\ StateManager_update(ScaleDt(dt, get_time_scale(time_manager)))

\* Game.fixed_update(dt)
Game_fixed_update(dt) ==
    LET tm == TimeManager_update(time_manager, now)
    IN  /\ time_manager' = tm
        /\ StateManager_update(ScaleDt(dt, get_time_scale(tm)))

\* One iteration of the drain loop: fixed_update(fixed_time_step), then the
\* step is taken off the accumulator.
FixedUpdate ==
    /\ pc = "drain"
    /\ ~DrainDone
    /\ Game_fixed_update(StepDt)
    /\ accumulated_time' = FSub(accumulated_time, fixed_time_step)
    /\ steps_in_pass' = steps_in_pass + 1
    /\ last_call' = NoCall
    /\ UNCHANGED <<pc, running, frame_time, interpolation, events_handled,
                   now>>
    /\ UNCHANGED save_dir

\* The loop has drained: compute the interpolation and render; then the
\* while self.running test.
Render ==
    /\ pc = "drain"
    /\ DrainDone
    /\ interpolation' = [num |-> accumulated_time, den |-> fixed_time_step]
    /\ pc' = IF running THEN "events" ELSE "done"
    /\ UNCHANGED <<running, accumulated_time, frame_time, steps_in_pass,
                   events_handled, last_call>>
    /\ UNCHANGED tmVars
    /\ UNCHANGED smVars
    /\ UNCHANGED save_dir

\* The wall clock moves on between two reads of pygame.time.get_ticks().
Elapse(a) ==
    /\ a > 0
    /\ now' = now + a
    /\ UNCHANGED <<time_manager, last_call>>
    /\ UNCHANGED gameVars
    /\ UNCHANGED smVars
    /\ UNCHANGED save_dir

----------------------------------------------------------------------------
(* Observers: they read the program and never change it. *)

\* The drain loop run to its end from `acc`, `k` steps already counted.
\* Each subtraction is bound to its value before the next iteration.
RECURSIVE Drain(_, _)
Drain(acc, k) ==
    IF FLe(fixed_time_step, acc)
    THEN CHOOSE r \in {Drain(next, k + 1) :
                           next \in {FSub(acc, fixed_time_step)}} : TRUE
    ELSE [acc |-> acc, steps |-> k]

\* A whole scheduling pass as a function of the carried accumulator and the
\* frame time alone.
SchedulePass(acc, ft) ==
    CHOOSE r \in {Drain(start, 0) :
                      start \in {FAdd(acc, FMin(ft, max_frame_time))}} : TRUE

\* The reference scheduler sees the frame time ft.
RefTick(ft) == ref' = SchedulePass(ref.acc, ft)

\* The ledger books one frame: the frame time as fed and as clamped.
BookFrame(ft) ==
    ledger' = [ledger EXCEPT
                 !.frames = @ + 1,
                 !.fed = Append(@, ft),
                 !.kept = Ms(@.n + FMin(ft, max_frame_time).n,
                             @.d + FMin(ft, max_frame_time).d),
                 !.pass_steps = Append(@, 0)]

\* The ledger books one fixed step of the current frame.
BookStep ==
    ledger' = [ledger EXCEPT
                 !.steps = @ + 1,
                 !.pass_steps[Len(ledger.pass_steps)] = @ + 1]

\* The ledger books a fixed step made in the mode Playing, up to `most`.
BookPlayed(most) ==
    ledger' = [ledger EXCEPT
                 !.played = IF current_state = "PLAYING" /\ @ < most
                            THEN @ + 1 ELSE @]

\* Every gameplay update moves the enemies that are on their way to the
\* player, for more than a thousand updates.  Where the frames are not
\* bounded the player rests instead: after `most` gameplay updates the
\* input source pauses the game and does not bring it back to Playing.
Rested(most) == ledger.played >= most
RestedEvent(e, most) ==
    /\ HandleEvent(e)
    /\ Rested(most) => current_state' \in {"MENU", "PAUSED"}
RestedEndEvents(most) ==
    /\ EndEvents
    /\ Rested(most) => current_state \in {"MENU", "PAUSED"}

----------------------------------------------------------------------------
(* SaveManager (src/managers/save_manager.py).  The game never calls it;   *)
(* it is driven through its interface.                                     *)

\* A Python value, and a JSON value in a file, is a node: its type t, its
\* number n (int), its characters s (a str: the code points; a JSON string:
\* the UTF-16 units its text spells) and its items (list, tuple: the
\* elements; dict: the entries in insertion order; entry: the key and the
\* value).
Node(t, n, s, items) == [t |-> t, n |-> n, s |-> s, items |-> items]
PyNone == Node("none", 0, <<>>, <<>>)
PyInt(n) == Node("int", n, <<>>, <<>>)
PyStr(s) == Node("str", 0, s, <<>>)
PyList(items) == Node("list", 0, <<>>, items)
PyTuple(items) == Node("tuple", 0, <<>>, items)
PyEntry(k, v) == Node("entry", 0, <<>>, <<k, v>>)
PyDict(entries) == Node("dict", 0, <<>>, entries)
\* An object json has no encoding for (a member of Era, a Rect, a set).
PyObject == Node("object", 0, <<>>, <<>>)

\* The strings of the module, as code points.
S_game_data == <<103, 97, 109, 101, 95, 100, 97, 116, 97>>
S_checksum == <<99, 104, 101, 99, 107, 115, 117, 109>>
S_player == <<112, 108, 97, 121, 101, 114>>
S_state == <<115, 116, 97, 116, 101>>
S_timestamp == <<116, 105, 109, 101, 115, 116, 97, 109, 112>>
S_save_type == <<115, 97, 118, 101, 95, 116, 121, 112, 101>>
S_manual == <<109, 97, 110, 117, 97, 108>>
S_checkpoint == <<99, 104, 101, 99, 107, 112, 111, 105, 110, 116>>

\* The outcome of a call that may raise.
Raised == [raised |-> TRUE, value |-> PyNone]
Returned(v) == [raised |-> FALSE, value |-> v]

\* str(n) of an int.
RECURSIVE Digits(_)
Digits(n) ==
    IF n < 0 THEN <<45>> \o Digits(-n)
    ELSE IF n < 10 THEN <<48 + n>>
    ELSE Digits(n \div 10) \o <<48 + (n % 10)>>

\* a < b on two str: code point by code point.
RECURSIVE StrLess(_, _)
StrLess(a, b) ==
    IF b = <<>> THEN FALSE
    ELSE IF a = <<>> THEN TRUE
    ELSE IF Head(a) # Head(b) THEN Head(a) < Head(b)
    ELSE StrLess(Tail(a), Tail(b))

\* The first place where two tuples differ (==), or 0 when one is a prefix
\* of the other.
FirstDifference(a, b) ==
    LET places == {i \in 1..Len(a) : i <= Len(b) /\ a[i] # b[i]}
    IN  IF places = {} THEN 0
        ELSE CHOOSE i \in places : \A j \in places : i <= j

\* a < b raises no TypeError: two int, two str, or two tuples whose first
\* differing elements have an order; None, objects and values of two types
\* have none.
RECURSIVE Orderable(_, _)
Orderable(a, b) ==
    IF a.t # b.t THEN FALSE
    ELSE IF a.t \in {"int", "str"} THEN TRUE
    ELSE IF a.t = "tuple"
    THEN LET i == FirstDifference(a.items, b.items)
         IN  IF i = 0 THEN TRUE ELSE Orderable(a.items[i], b.items[i])
    ELSE FALSE

\* a < b on two dict keys that have an order, as sorted() compares them.
RECURSIVE KeyLess(_, _)
KeyLess(a, b) ==
    IF a.t = "int" THEN a.n < b.n
    ELSE IF a.t = "str" THEN StrLess(a.s, b.s)
    ELSE LET i == FirstDifference(a.items, b.items)
         IN  IF i = 0 THEN Len(a.items) < Len(b.items)
             ELSE KeyLess(a.items[i], b.items[i])

\* sorted(dct.items()): the items are compared by their keys, and
\* TypeError is raised when two keys are compared that have no order; a
\* dict of one key compares nothing.
RECURSIVE InsertEntry(_, _)
InsertEntry(sorted, e) ==
    IF sorted = <<>> THEN <<e>>
    ELSE IF KeyLess(e.items[1], Head(sorted).items[1])
         THEN <<e>> \o sorted
         ELSE <<Head(sorted)>> \o InsertEntry(Tail(sorted), e)
RECURSIVE SortEntries(_)
SortEntries(entries) ==
    IF entries = <<>> THEN <<>>
    ELSE InsertEntry(
            CHOOSE r \in {SortEntries(t) : t \in {Tail(entries)}} : TRUE,
            Head(entries))
Sortable(entries) ==
    \A i, j \in 1..Len(entries) :
        i < j => Orderable(entries[i].items[1], entries[j].items[1])

\* The text json writes for a str (ensure_ascii): every character outside
\* ASCII is a \uXXXX escape of a UTF-16 unit, a code point above U+FFFF
\* two of them, a surrogate pair; a surrogate in the str is written as the
\* unit it is.
RECURSIVE EncodeBasestringAscii(_)
EncodeBasestringAscii(s) ==
    IF s = <<>> THEN <<>>
    ELSE IF Head(s) >= 65536
    THEN <<55296 + ((Head(s) - 65536) \div 1024),
           56320 + ((Head(s) - 65536) % 1024)>>
         \o EncodeBasestringAscii(Tail(s))
    ELSE <<Head(s)>> \o EncodeBasestringAscii(Tail(s))

\* The str json reads from that text: a high surrogate (D800 to DBFF)
\* followed by a low one (DC00 to DFFF) is one code point, every other
\* unit a character of its own.
RECURSIVE ScanString(_)
ScanString(u) ==
    IF u = <<>> THEN <<>>
    ELSE IF /\ Len(u) >= 2
            /\ u[1] \in 55296 .. 56319
            /\ u[2] \in 56320 .. 57343
    THEN <<65536 + (u[1] - 55296) * 1024 + (u[2] - 56320)>>
         \o ScanString(SubSeq(u, 3, Len(u)))
    ELSE <<Head(u)>> \o ScanString(Tail(u))

\* The key of a JSON object member made from a dict key: the text of a
\* str, an int as str(int), None as "null"; any other key raises TypeError.
KeyEncodable(k) == k.t \in {"str", "int", "none"}
KeyText(k) ==
    CASE k.t = "str" -> EncodeBasestringAscii(k.s)
      [] k.t = "int" -> Digits(k.n)
      [] OTHER -> <<110, 117, 108, 108>>

\* json.dumps(v, sort_keys=sort_keys) and json.dump(v, f): the JSON value
\* written, or TypeError.  A tuple is written as an array, a dict as an
\* object whose members follow the insertion order or, under sort_keys, the
\* order of the keys as they are before they become text.
RECURSIVE JsonEncode(_, _)
JsonEncode(v, sort_keys) ==
    CASE v.t \in {"none", "int"} -> Returned(v)
      [] v.t = "str" ->
            Returned([v EXCEPT !.s = EncodeBasestringAscii(@)])
      [] v.t \in {"list", "tuple"} ->
            LET enc == [i \in 1..Len(v.items) |->
                           JsonEncode(v.items[i], sort_keys)]
            IN  IF \E i \in 1..Len(v.items) : enc[i].raised
                THEN Raised
                ELSE Returned(PyList([i \in 1..Len(v.items) |->
                                         enc[i].value]))
      [] v.t = "dict" ->
            IF sort_keys /\ ~Sortable(v.items)
            THEN Raised
            ELSE LET entries == IF sort_keys THEN SortEntries(v.items)
                                ELSE v.items
                     enc == [i \in 1..Len(entries) |->
                                JsonEncode(entries[i].items[2], sort_keys)]
                 IN  IF \E i \in 1..Len(entries) :
                            \/ ~KeyEncodable(entries[i].items[1])
                            \/ enc[i].raised
                     THEN Raised
                     ELSE Returned(PyDict(
                            [i \in 1..Len(entries) |->
                                PyEntry(PyStr(KeyText(entries[i].items[1])),
                                        enc[i].value)]))
      [] OTHER -> Raised

\* d[k] = v on the entries of a dict.
DictSet(entries, k, v) ==
    IF \E i \in 1..Len(entries) : entries[i].items[1] = k
    THEN [i \in 1..Len(entries) |->
             IF entries[i].items[1] = k THEN PyEntry(k, v) ELSE entries[i]]
    ELSE Append(entries, PyEntry(k, v))

\* The dict json.load builds from the members of an object: a repeated key
\* keeps its first place and its last value.
RECURSIVE DictFromMembers(_, _)
DictFromMembers(members, acc) ==
    IF members = <<>> THEN acc
    ELSE DictFromMembers(Tail(members),
                         DictSet(acc, Head(members).items[1],
                                 Head(members).items[2]))

\* json.load of a parsed JSON value: arrays become lists, objects dicts,
\* strings and member names the str their text spells.
RECURSIVE JsonDecode(_)
JsonDecode(j) ==
    CASE j.t = "list" ->
            PyList([i \in 1..Len(j.items) |-> JsonDecode(j.items[i])])
      [] j.t = "dict" ->
            PyDict(DictFromMembers(
                     [i \in 1..Len(j.items) |->
                         PyEntry(JsonDecode(j.items[i].items[1]),
                                 JsonDecode(j.items[i].items[2]))], <<>>))
      [] j.t = "str" -> [j EXCEPT !.s = ScanString(@)]
      [] OTHER -> j

\* The content of a file: a JSON document, or text json.load cannot parse.
Document(j) == [ok |-> TRUE, json |-> j]
Garbage == [ok |-> FALSE, json |-> PyNone]

\* d[key]: KeyError when the key is missing, TypeError on a non-dict.
DictGet(d, key) ==
    IF d.t = "dict" /\ \E i \in 1..Len(d.items) : d.items[i].items[1] = key
    THEN Returned(d.items[CHOOSE i \in 1..Len(d.items) :
                             d.items[i].items[1] = key].items[2])
    ELSE Raised

\* hashlib.sha256(text).hexdigest(): a str that names the text hashed; two
\* texts have one digest only if they are the same text.
Sha256Hex(j) == Node("str", 0, <<>>, <<j>>)

\* SaveManager._calculate_checksum(data)
SaveManager_calculate_checksum(data) ==
    LET text == JsonEncode(data, TRUE)
    IN  IF text.raised THEN Raised ELSE Returned(Sha256Hex(text.value))

\* SaveManager._validate_checksum(data, stored_checksum): the value
\* returned is a bool, kept as the int 1 or 0 of a node.
SaveManager_validate_checksum(data, stored_checksum) ==
    LET game_data == DictGet(data, PyStr(S_game_data))
        checksum == SaveManager_calculate_checksum(game_data.value)
    IN  IF game_data.raised \/ checksum.raised
        THEN Raised
        ELSE Returned(PyInt(IF checksum.value = stored_checksum THEN 1
                            ELSE 0))

\* The save directory: for every file name save_<save_type>_<slot>.json
\* whether the file exists, its content and its modification time; clock is
\* the time of the last write (two writes never share a time).
SaveTypes == {S_manual, S_checkpoint}
Slots == {0, 1}
FileNames == {[save_type |-> t, slot |-> n] : t \in SaveTypes, n \in Slots}
NoFile == [exists |-> FALSE, text |-> Garbage, mtime |-> 0]
SaveManager_init == [files |-> [f \in FileNames |-> NoFile], clock |-> 0]

\* SaveManager.save_game(player_data, game_state, save_type, slot) at the
\* time clock + 1: the directory after the call and the value returned.
SaveManager_save_game(dir, player_data, game_state, save_type, slot) ==
    LET stamp == dir.clock + 1
        game_data == PyDict(<<PyEntry(PyStr(S_player), player_data),
                              PyEntry(PyStr(S_state), game_state),
                              PyEntry(PyStr(S_timestamp),
                                      PyStr(Digits(stamp))),
                              PyEntry(PyStr(S_save_type),
                                      PyStr(save_type))>>)
        checksum == SaveManager_calculate_checksum(game_data)
        save_data == PyDict(<<PyEntry(PyStr(S_game_data), game_data),
                              PyEntry(PyStr(S_checksum), checksum.value)>>)
        text == JsonEncode(save_data, FALSE)
        name == [save_type |-> save_type, slot |-> slot]
        written == [exists |-> TRUE,
                    text |-> IF text.raised THEN Garbage
                             ELSE Document(text.value),
                    mtime |-> stamp]
    IN  IF checksum.raised
        THEN [dir |-> dir, result |-> FALSE]
        ELSE [dir |-> [files |-> [dir.files EXCEPT ![name] = written],
                       clock |-> stamp],
              result |-> ~text.raised]

\* What one file gives a loader: it raises on text that does not parse, on
\* a missing key and on game_data json cannot encode; else the game_data
\* and whether the checksum validates.
ReadSave(file) ==
    LET save_data == JsonDecode(file.text.json)
        checksum == DictGet(save_data, PyStr(S_checksum))
        valid == SaveManager_validate_checksum(save_data, checksum.value)
    IN  IF ~file.text.ok \/ checksum.raised \/ valid.raised
        THEN [raised |-> TRUE, valid |-> FALSE, game_data |-> PyNone]
        ELSE [raised |-> FALSE, valid |-> valid.value.n = 1,
              game_data |-> DictGet(save_data, PyStr(S_game_data)).value]

\* The files os.listdir gives that start with save_checkpoint_.
CheckpointFiles(dir) ==
    {f \in FileNames : f.save_type = S_checkpoint /\ dir.files[f].exists}

\* The loop of _load_fallback_save over the saves left, newest first.
RECURSIVE FallbackFrom(_, _)
FallbackFrom(dir, saves) ==
    IF saves = {} THEN Returned(PyNone)
    ELSE LET save == CHOOSE f \in saves :
                        \A g \in saves :
                            dir.files[g].mtime <= dir.files[f].mtime
             read == ReadSave(dir.files[save])
         IN  IF read.raised THEN Raised
             ELSE IF read.valid THEN Returned(read.game_data)
             ELSE FallbackFrom(dir, saves \ {save})

\* SaveManager._load_fallback_save(): an exception inside gives None.
SaveManager_load_fallback_save(dir) ==
    LET found == FallbackFrom(dir, CheckpointFiles(dir))
    IN  IF found.raised THEN PyNone ELSE found.value

\* SaveManager.load_game(save_type, slot): the value returned.
SaveManager_load_game(dir, save_type, slot) ==
    LET file == dir.files[[save_type |-> save_type, slot |-> slot]]
        read == ReadSave(file)
    IN  IF ~file.exists THEN PyNone
        ELSE IF read.raised THEN PyNone
        ELSE IF ~read.valid THEN SaveManager_load_fallback_save(dir)
        ELSE read.game_data

----------------------------------------------------------------------------
(* Specifications *)

\* PlayingState.__init__: the five levels with their enemies, the first
\* level current, the sprite groups the state's own.
PlayingState_init ==
    [current_level_index |-> 0, current_level |-> 0,
     groups |-> OwnGroups,
     levels |-> [i \in 0 .. NumLevels - 1 |-> LevelEnemies(i)],
     scaled_dt |-> StepDt]

Init ==
    /\ pc = "events"
    /\ running = TRUE
    /\ accumulated_time = FZero
    /\ frame_time = FZero
    /\ steps_in_pass = 0
    /\ interpolation = [num |-> FZero, den |-> fixed_time_step]
    /\ events_handled = 0
    /\ now = 0
    /\ time_manager = TimeManager_init
    /\ update_dt = StepDt
    /\ current_state = "MENU"
    /\ menu_selected = 0
    /\ paused_selected = 0
    /\ era_state = [target_era |-> "MEDIEVAL", transition_alpha |-> 0,
                    fading_in |-> TRUE]
    /\ playing = PlayingState_init
    /\ player = Player_init
    /\ last_call = NoCall
    /\ save_dir = SaveManager_init
    /\ ref = [acc |-> FZero, steps |-> 0]
    /\ ledger = [frames |-> 0, steps |-> 0, kept |-> FZero, fed |-> <<>>,
                 pass_steps |-> <<>>, played |-> 0]

\* Frame times of the running game: clock.tick returns whole milliseconds.
GameFrameTimes == {FromMs(0), FromMs(25)}
\* Wall-clock advances between two reads.
ClockAdvances == {5000, 30000}
\* Events the input source delivers; slow motion is requested only while
\* its expiry lies within the explored clock range.
Offered(horizon) ==
    IF now + SLOW_MOTION_DURATION <= horizon
    THEN Events
    ELSE Events \ {KeyDown("K_LSHIFT")}

\* The era power starts a cooldown that every later gameplay step counts
\* down; it is offered in the frame-bounded specification PlaySpec only.
PowerEvents == {KeyDown("K_e")}
\* The jump is offered in the specifications that follow the player's
\* body; the full game loop with a running wall clock goes without it.
JumpEvents == {KeyDown("K_SPACE")}

GameEvent ==
    \E e \in (Offered(MaxNow) \ PowerEvents) \ JumpEvents :
        RestedEvent(e, MaxPlayed) /\ UNCHANGED obsVars
GameEndEvents == RestedEndEvents(MaxPlayed) /\ UNCHANGED obsVars
GameTick ==
    \E ft \in GameFrameTimes : ClockTick(ft) /\ RefTick(ft) /\ UNCHANGED ledger
GameStep == FixedUpdate /\ BookPlayed(MaxPlayed) /\ UNCHANGED ref
GameRender == Render /\ UNCHANGED obsVars
GameElapse ==
    \E a \in ClockAdvances :
        now + a <= MaxNow /\ Elapse(a) /\ UNCHANGED obsVars

Next ==
    \/ GameEvent
    \/ GameEndEvents
    \/ GameTick
    \/ GameStep
    \/ GameRender
    \/ GameElapse

Spec == Init /\ [][Next]_vars

\* The scheduler alone: no input events, a frozen wall clock, and frame
\* times that include the exact step, sub-step, multi-step and over-cap
\* frames.  MaxFrames frames are fed.
SchedFrameTimes ==
    {FromMs(k) : k \in {0, 16, 17, 25, 50, 500}} \cup {fixed_time_step}

SchedEndEvents == EndEvents /\ UNCHANGED obsVars
SchedTick ==
    \E ft \in SchedFrameTimes :
        /\ ledger.frames < MaxFrames
        /\ ClockTick(ft) /\ RefTick(ft) /\ BookFrame(ft)
SchedStep == FixedUpdate /\ BookStep /\ UNCHANGED ref
SchedRender == Render /\ UNCHANGED obsVars

SchedNext == SchedEndEvents \/ SchedTick \/ SchedStep \/ SchedRender

SchedSpec == Init /\ [][SchedNext]_vars

\* Malformed frame times: the scheduler is fed negative values as well.
RawFrameTimes == {FromMs(k) : k \in {-17, -5, 0, 17, 50}}

RawEndEvents == EndEvents /\ UNCHANGED obsVars
RawTick ==
    \E ft \in RawFrameTimes :
        /\ ledger.frames < MaxFrames
        /\ ClockTick(ft) /\ RefTick(ft) /\ BookFrame(ft)
RawStep == FixedUpdate /\ BookStep /\ UNCHANGED ref
RawRender == Render /\ UNCHANGED obsVars

RawNext == RawEndEvents \/ RawTick \/ RawStep \/ RawRender

RawSchedSpec == Init /\ [][RawNext]_vars

\* The slow-motion life cycle (start, expiry, cooldown, restart): every
\* event but the era keys, and a wall clock that runs past the cooldown.
ClockEvent ==
    \E e \in (Offered(MaxNowLong) \ {KeyDown("K_q"), KeyDown("K_z")})
                \ PowerEvents :
        RestedEvent(e, MaxPlayed) /\ UNCHANGED obsVars
ClockEndEvents == RestedEndEvents(MaxPlayed) /\ UNCHANGED obsVars
ClockFrame ==
    \E ft \in GameFrameTimes : ClockTick(ft) /\ RefTick(ft) /\ UNCHANGED ledger
ClockStep == FixedUpdate /\ BookPlayed(MaxPlayed) /\ UNCHANGED ref
ClockRender == Render /\ UNCHANGED obsVars
ClockElapse ==
    \E a \in ClockAdvances :
        now + a <= MaxNowLong /\ Elapse(a) /\ UNCHANGED obsVars

ClockNext ==
    \/ ClockEvent
    \/ ClockEndEvents
    \/ ClockFrame
    \/ ClockStep
    \/ ClockRender
    \/ ClockElapse

ClockSpec == Init /\ [][ClockNext]_vars

\* The TimeManager driven through its interface alone, as a caller of the
\* class may: start_slow_motion, update and start_era_transition in any
\* order, with the wall clock advancing in between.  The game loop stays
\* where Init left it.
ApiStartSlowMotion ==
    /\ now + SLOW_MOTION_DURATION <= MaxNow
    /\ time_manager' = TimeManager_start_slow_motion(time_manager, now).tm
    /\ last_call' =
          [op |-> "start_slow_motion",
           result |-> TimeManager_start_slow_motion(time_manager, now).result]
    /\ UNCHANGED <<gameVars, now, smVars, obsVars>>
    /\ UNCHANGED save_dir
ApiUpdate ==
    /\ time_manager' = TimeManager_update(time_manager, now)
    /\ last_call' = [op |-> "update", result |-> FALSE]
    /\ UNCHANGED <<gameVars, now, smVars, obsVars>>
    /\ UNCHANGED save_dir
ApiStartEraTransition(target_era) ==
    /\ time_manager' = TimeManager_start_era_transition(time_manager,
                                                        target_era)
    /\ last_call' = [op |-> "start_era_transition", result |-> FALSE]
    /\ UNCHANGED <<gameVars, now, smVars, obsVars>>
    /\ UNCHANGED save_dir
ApiBeginTransition == \E target_era \in Eras : ApiStartEraTransition(target_era)
ApiElapse ==
    \E a \in ClockAdvances :
        now + a <= MaxNow /\ Elapse(a) /\ UNCHANGED obsVars

ApiNext == ApiStartSlowMotion \/ ApiUpdate \/ ApiBeginTransition \/ ApiElapse

ApiSpec == Init /\ [][ApiNext]_vars

\* A wall of walls carries the rect: the rect's bottom is on the wall's top
\* and the two share a part of the x axis.
Supported(r, walls) ==
    \E i \in 1..Len(walls) :
        /\ walls[i].y = r.y + PlayerHeight
        /\ r.x < walls[i].x + walls[i].w
        /\ r.x + PlayerWidth > walls[i].x

\* Player.update on bodies in the demo level: the game is taken up in
\* Playing with the player at a position next to the floor, a side wall
\* or a platform, with a velocity the game gives a body, at full speed or
\* in slow motion, and MaxFrames frames of the loop are run from there.
PhysPositions ==
    {[x |-> x, y |-> y] : x \in {22, 100, 266, 320, 1226},
                          y \in {430, 522, 610, 616}}
PhysVelocities ==
    {[x |-> vx, y |-> vy] :
        vx \in {-PLAYER_SPEED, 0, PLAYER_SPEED},
        vy \in {SlamVelocity, 0, PLAYER_JUMP_FORCE, MAX_FALL_SPEED}}
PhysBodies ==
    {b \in {[Player_init EXCEPT !.rect = r, !.velocity = v, !.on_ground = g] :
                r \in PhysPositions, v \in PhysVelocities,
                g \in BOOLEAN} :
        /\ \A i \in 1..Len(LevelWalls(NumLevels - 1)) :
              ~colliderect(b.rect, LevelWalls(NumLevels - 1)[i])
        /\ b.on_ground => b.velocity.y \in {SlamVelocity, 0}
        /\ b.on_ground /\ b.velocity.y = 0 =>
              Supported(b.rect, LevelWalls(NumLevels - 1))
        /\ ~b.on_ground => b.velocity.y # SlamVelocity}
PhysFrameTimes == {FromMs(25), FromMs(50)}

PhysInit ==
    /\ pc = "events"
    /\ running = TRUE
    /\ accumulated_time = FZero
    /\ frame_time = FZero
    /\ steps_in_pass = 0
    /\ interpolation = [num |-> FZero, den |-> fixed_time_step]
    /\ events_handled = 0
    /\ now = 0
    /\ time_manager \in
          {TimeManager_init,
           TimeManager_start_slow_motion(TimeManager_init, 0).tm}
    /\ update_dt = StepDt
    /\ current_state = "PLAYING"
    /\ menu_selected = 1
    /\ paused_selected = 0
    /\ era_state = [target_era |-> "MEDIEVAL", transition_alpha |-> 0,
                    fading_in |-> TRUE]
    /\ playing = [PlayingState_init EXCEPT
                      !.current_level_index = NumLevels - 1,
                      !.current_level = NumLevels - 1,
                      !.groups = NumLevels - 1]
    /\ player \in PhysBodies
    /\ last_call = NoCall
    /\ save_dir = SaveManager_init
    /\ ref = [acc |-> FZero, steps |-> 0]
    /\ ledger = [frames |-> 0, steps |-> 0, kept |-> FZero, fed |-> <<>>,
                 pass_steps |-> <<>>, played |-> 0]

PhysEndEvents == EndEvents /\ UNCHANGED obsVars
PhysTick ==
    \E ft \in PhysFrameTimes :
        /\ ledger.frames < MaxFrames
        /\ ClockTick(ft) /\ RefTick(ft) /\ BookFrame(ft)
PhysStep == FixedUpdate /\ BookStep /\ UNCHANGED ref
PhysRender == Render /\ UNCHANGED obsVars

PhysNext == PhysEndEvents \/ PhysTick \/ PhysStep \/ PhysRender

PhysSpec == PhysInit /\ [][PhysNext]_vars

\* Bodies in the demo level with the jump key and the movement keys: the
\* game is taken up as in PhysSpec, and each frame delivers at most one
\* event, the jump key or another key, while D or no key is held.
GroundEvents ==
    {Holding(e, held) : e \in {KeyDown("K_SPACE"), KeyDown("K_x")},
                        held \in {"none", "d"}}

GroundEvent ==
    \E e \in GroundEvents :
        events_handled = 0 /\ HandleEvent(e) /\ UNCHANGED obsVars
GroundEndEvents == EndEvents /\ UNCHANGED obsVars
GroundTick ==
    \E ft \in PhysFrameTimes :
        /\ ledger.frames < MaxFrames
        /\ ClockTick(ft) /\ RefTick(ft) /\ BookFrame(ft)
GroundStep == FixedUpdate /\ BookStep /\ UNCHANGED ref
GroundRender == Render /\ UNCHANGED obsVars

GroundNext ==
    \/ GroundEvent
    \/ GroundEndEvents
    \/ GroundTick
    \/ GroundStep
    \/ GroundRender

GroundSpec == PhysInit /\ [][GroundNext]_vars

\* The Player driven through its interface, as a caller may: take_damage,
\* heal, update, use_era_power and switch_era in any order, on a player
\* standing on the floor of the demo level.  The amounts are non-negative
\* and reach past both ends of the health range; the update times are a
\* quarter of the fixed step and half a second.  The game loop stays where it is.
DamageAmounts == {0, 60, 150}
HealAmounts == {0, 60, 150}
PlayerUpdateTimes == {Dt(fixed_time_step, 250), Dt(FromMs(500), 1000)}

PlayerApiInit ==
    /\ PhysInit
    /\ time_manager = TimeManager_init
    /\ player = [Player_init EXCEPT !.rect = [x |-> 22, y |-> 616],
                                    !.on_ground = TRUE]

PlayerApiCall(op, p) ==
    /\ player' = p
    /\ last_call' = [op |-> op, result |-> FALSE]
    /\ UNCHANGED <<gameVars, tmVars, update_dt, current_state, menu_selected,
                   paused_selected, era_state, playing, save_dir, ref>>

ApiTakeDamage ==
    \E amount \in DamageAmounts :
        /\ PlayerApiCall("take_damage", Player_take_damage(player, amount))
        /\ UNCHANGED ledger
ApiHeal ==
    \E amount \in HealAmounts :
        /\ PlayerApiCall("heal", Player_heal(player, amount))
        /\ UNCHANGED ledger
ApiPlayerUpdate ==
    \E dt \in PlayerUpdateTimes :
        /\ ledger.steps < MaxUpdates
        /\ PlayerApiCall("player_update",
                         Player_update(player, dt,
                                       GroupWalls(playing.groups)))
        /\ ledger' = [ledger EXCEPT !.steps = @ + 1]
ApiUseEraPower ==
    /\ PlayerApiCall("use_era_power", Player_use_era_power(player))
    /\ UNCHANGED ledger
ApiSwitchEra ==
    \E era \in Eras :
        /\ PlayerApiCall("switch_era", Player_switch_era(player, era))
        /\ UNCHANGED ledger

PlayerApiNext ==
    \/ ApiTakeDamage
    \/ ApiHeal
    \/ ApiPlayerUpdate
    \/ ApiUseEraPower
    \/ ApiSwitchEra

PlayerApiSpec == PlayerApiInit /\ [][PlayerApiNext]_vars

\* The enemies driven through their interface, which no run of the game
\* does: Enemy.take_damage on the enemies of the demo level, for less than
\* their health, all of it and more, and PlayingState.update called
\* between, on the bodies of the demo level.
EnemyDamageAmounts == {60, 200}

ApiEnemyTakeDamage ==
    \E i \in DOMAIN GroupEnemies(playing), amount \in EnemyDamageAmounts :
        /\ playing' = [playing EXCEPT !.levels[playing.groups] =
                           EnemyGroup_take_damage(@, i, amount)]
        /\ last_call' = [op |-> "enemy_take_damage", result |-> FALSE]
        /\ UNCHANGED <<gameVars, tmVars, update_dt, current_state,
                       menu_selected, paused_selected, era_state, player,
                       save_dir, obsVars>>
ApiPlayingUpdate ==
    /\ ledger.steps < MaxEnemyUpdates
    /\ UNCHANGED <<gameVars, tmVars, update_dt, menu_selected,
                   paused_selected, save_dir, ref>>
    /\ PlayingUpdate(StepDt)
    /\ last_call' = [op |-> "playing_update", result |-> FALSE]
    /\ ledger' = [ledger EXCEPT !.steps = @ + 1]

EnemyApiNext ==
    \/ ApiEnemyTakeDamage
    \/ ApiPlayingUpdate

EnemyApiSpec == PhysInit /\ [][EnemyApiNext]_vars

\* An enemy in a group is alive, with no more than the health it began
\* with, and no group has gained an enemy.
EnemiesAliveInGroups ==
    \A lvl \in 0 .. NumLevels - 1 :
        /\ Len(playing.levels[lvl]) <= Len(LevelEnemies(lvl))
        /\ \A i \in DOMAIN playing.levels[lvl] :
              /\ playing.levels[lvl][i].health > 0
              /\ playing.levels[lvl][i].health
                    <= EnemyHealth(playing.levels[lvl][i].kind)

\* Input and the fixed steps of a frame: the game from its start with the
\* menu's start key and events delivered while a movement key is held or
\* not, and MaxFrames frames of no, one, two or three fixed steps.
InputEvents == {KeyDown("K_RETURN"), KeyDown("K_x")} \cup MoveEvents
InputFrameTimes == {FromMs(0), FromMs(25), FromMs(50)}

InputEvent == \E e \in InputEvents : HandleEvent(e) /\ UNCHANGED obsVars
InputEndEvents == EndEvents /\ UNCHANGED obsVars
InputTick ==
    \E ft \in InputFrameTimes :
        /\ ledger.frames < MaxFrames
        /\ ClockTick(ft) /\ RefTick(ft) /\ BookFrame(ft)
InputStep == FixedUpdate /\ BookStep /\ UNCHANGED ref
InputRender == Render /\ UNCHANGED obsVars

InputNext ==
    InputEvent \/ InputEndEvents \/ InputTick \/ InputStep \/ InputRender

InputSpec == Init /\ [][InputNext]_vars

\* The SaveManager driven through its interface, as a caller may: saves
\* and loads in any order, of player data and game states a caller may
\* pass, while files of the directory get damaged behind its back.  The
\* game stays where Init left it.
S_x == <<120>>
S_pos == <<112, 111, 115>>
S_era == <<101, 114, 97>>
\* '\U0001f600', the two surrogates '\ud83d\ude00' that spell it in UTF-16
\* and '\uffff', which sorts after a surrogate and before U+1F600.
S_astral == <<128512>>
S_surrogates == <<55357, 56832>>
S_bmp_last == <<65535>>
Snapshot(player_data, game_state) ==
    [player_data |-> player_data, game_state |-> game_state]
Snapshots ==
    {Snapshot(PyDict(<<PyEntry(PyStr(S_x), PyInt(1))>>),
              PyDict(<<PyEntry(PyStr(S_era), PyStr(S_x))>>)),
     Snapshot(PyDict(<<PyEntry(PyStr(S_pos),
                               PyList(<<PyInt(1), PyInt(2)>>))>>),
              PyDict(<<>>)),
     Snapshot(PyDict(<<PyEntry(PyStr(S_pos),
                               PyTuple(<<PyInt(1), PyInt(2)>>))>>),
              PyDict(<<PyEntry(PyStr(S_era), PyStr(S_x))>>)),
     Snapshot(PyDict(<<PyEntry(PyInt(9), PyInt(1)),
                       PyEntry(PyInt(10), PyInt(2))>>),
              PyDict(<<>>)),
     Snapshot(PyDict(<<PyEntry(PyStr(S_era), PyObject)>>),
              PyDict(<<>>)),
     Snapshot(PyDict(<<PyEntry(PyStr(S_x), PyStr(S_astral))>>),
              PyDict(<<PyEntry(PyStr(S_era), PyStr(S_surrogates))>>)),
     Snapshot(PyDict(<<PyEntry(PyStr(S_surrogates), PyInt(1)),
                       PyEntry(PyStr(S_bmp_last), PyInt(2))>>),
              PyDict(<<>>))}

SaveIdle ==
    /\ UNCHANGED <<gameVars, tmVars, smVars, obsVars>>

SaveGameCall(player_data, game_state, save_type, slot) ==
    LET call == SaveManager_save_game(save_dir, player_data, game_state,
                                      save_type, slot)
    IN  /\ save_dir' = call.dir
        /\ last_call' = [op |-> "save_game", result |-> call.result]
        /\ SaveIdle
SaveGame ==
    \E snapshot \in Snapshots, save_type \in SaveTypes, slot \in Slots :
        /\ save_dir.clock < MaxSaves
        /\ SaveGameCall(snapshot.player_data, snapshot.game_state,
                        save_type, slot)

LoadGameCall(save_type, slot) ==
    /\ last_call' = [op |-> "load_game", result |-> FALSE,
                     save_type |-> save_type, slot |-> slot,
                     value |-> SaveManager_load_game(save_dir, save_type,
                                                     slot)]
    /\ UNCHANGED save_dir
    /\ SaveIdle
LoadGame ==
    \E save_type \in SaveTypes, slot \in Slots :
        LoadGameCall(save_type, slot)

SaveNext == SaveGame \/ LoadGame

SaveSpec == Init /\ [][SaveNext]_vars

\* The SaveManager with files that get damaged behind its back: saves of
\* one snapshot json writes and reads back as it is, loads, files cut
\* short and files altered.
FallbackSnapshot ==
    Snapshot(PyDict(<<PyEntry(PyStr(S_x), PyInt(1))>>),
             PyDict(<<PyEntry(PyStr(S_era), PyStr(S_x))>>))

FallbackSave ==
    \E save_type \in SaveTypes, slot \in Slots :
        /\ save_dir.clock < MaxWrites
        /\ SaveGameCall(FallbackSnapshot.player_data,
                        FallbackSnapshot.game_state, save_type, slot)

\* A file is cut short: it no longer parses.
TruncateFile ==
    \E f \in FileNames :
        /\ save_dir.files[f].exists
        /\ save_dir.files[f].text.ok
        /\ save_dir' = [save_dir EXCEPT !.files[f].text = Garbage]
        /\ last_call' = NoCall
        /\ SaveIdle

\* The game_data of a file is altered and its checksum is not: the player
\* member of the document is replaced by null.
AlterFile ==
    \E f \in FileNames :
        LET save_data == save_dir.files[f].text.json
            game_data == DictGet(save_data, PyStr(S_game_data)).value
            altered == PyDict(DictSet(game_data.items, PyStr(S_player),
                                      PyNone))
        IN  /\ save_dir.files[f].exists
            /\ save_dir.files[f].text.ok
            /\ game_data # altered
            /\ save_dir' =
                  [save_dir EXCEPT !.files[f].text =
                      Document(PyDict(DictSet(save_data.items,
                                              PyStr(S_game_data),
                                              altered)))]
            /\ last_call' = NoCall
            /\ SaveIdle

FallbackNext == FallbackSave \/ LoadGame \/ TruncateFile \/ AlterFile

FallbackSpec == Init /\ [][FallbackNext]_vars

\* Whole fades with the era power in play: the game from its start with
\* the start key, the era power and the era keys, and MaxFadeFrames frames
\* of 500 ms, enough for a fade to rise, fall and hand back to Playing.
FadeEvents ==
    {KeyDown("K_RETURN"), KeyDown("K_e"), KeyDown("K_q"), KeyDown("K_z")}

FadeEvent == \E e \in FadeEvents : HandleEvent(e) /\ UNCHANGED obsVars
FadeEndEvents == EndEvents /\ UNCHANGED obsVars
FadeTick ==
    /\ ledger.frames < MaxFadeFrames
    /\ ClockTick(FromMs(500)) /\ RefTick(FromMs(500)) /\ BookFrame(FromMs(500))
FadeStep == FixedUpdate /\ BookStep /\ UNCHANGED ref
FadeRender == Render /\ UNCHANGED obsVars

FadeNext == FadeEvent \/ FadeEndEvents \/ FadeTick \/ FadeStep \/ FadeRender

FadeSpec == Init /\ [][FadeNext]_vars

\* The mode machine in the running game with a frozen wall clock: every
\* event but the era power, frames of 0 and 25 ms without a bound, so every
\* fade runs to its end at full speed, in slow motion and in a mix of both.
ModeEvent ==
    \E e \in Events \ PowerEvents :
        RestedEvent(e, MaxPlayed) /\ UNCHANGED obsVars
ModeEndEvents == RestedEndEvents(MaxPlayed) /\ UNCHANGED obsVars
ModeTick ==
    \E ft \in GameFrameTimes : ClockTick(ft) /\ RefTick(ft) /\ UNCHANGED ledger
ModeStep == FixedUpdate /\ BookPlayed(MaxPlayed) /\ UNCHANGED ref
ModeRender == Render /\ UNCHANGED obsVars

ModeNext == ModeEvent \/ ModeEndEvents \/ ModeTick \/ ModeStep \/ ModeRender

ModeSpec == Init /\ [][ModeNext]_vars

\* Gameplay over a bounded number of long frames: every event, the era
\* power included; each frame is clamped to max_frame_time, five fixed
\* steps, so a fade is begun and advanced here and runs to its peak and
\* its end under ModeSpec and FadeSpec.
PlayFrameTimes == {FromMs(500)}

PlayEvent == \E e \in Events : HandleEvent(e) /\ UNCHANGED obsVars
PlayEndEvents == EndEvents /\ UNCHANGED obsVars
PlayTick ==
    \E ft \in PlayFrameTimes :
        /\ ledger.frames < MaxPlayFrames
        /\ ClockTick(ft) /\ RefTick(ft) /\ BookFrame(ft)
PlayStep == FixedUpdate /\ BookStep /\ UNCHANGED ref
PlayRender == Render /\ UNCHANGED obsVars

PlayNext == PlayEvent \/ PlayEndEvents \/ PlayTick \/ PlayStep \/ PlayRender

PlaySpec == Init /\ [][PlayNext]_vars

\* The running game under fair scheduling: Game.run never blocks, every
\* frame lasts 25 ms (clock.tick(FPS) waits for the frame to fill), and the
\* wall clock advances until the explored range ends.
LiveEvents ==
    {KeyDown("K_RETURN"), KeyDown("K_ESCAPE"), KeyDown("K_DOWN"),
     KeyDown("K_LSHIFT"), KeyDown("K_q"), QuitEvent}

LiveEvent ==
    \E e \in LiveEvents \cap Offered(MaxNow) :
        events_handled = 0 /\ RestedEvent(e, MaxLivePlayed)
                           /\ UNCHANGED obsVars
LiveEndEvents == RestedEndEvents(MaxLivePlayed) /\ UNCHANGED obsVars
LiveTick == ClockTick(FromMs(25)) /\ RefTick(FromMs(25)) /\ UNCHANGED ledger
LiveStep == FixedUpdate /\ BookPlayed(MaxLivePlayed) /\ UNCHANGED ref
LiveRender == Render /\ UNCHANGED obsVars
LiveElapse == now + 5000 <= MaxNow /\ Elapse(5000) /\ UNCHANGED obsVars

LiveNext ==
    \/ LiveEvent
    \/ LiveEndEvents
    \/ LiveTick
    \/ LiveStep
    \/ LiveRender
    \/ LiveElapse

\* Any step of Game.run itself.
LiveRun == LiveEndEvents \/ LiveTick \/ LiveStep \/ LiveRender
\* The player who rests does pause the game.
LiveRest == Rested(MaxLivePlayed) /\ current_state = "PLAYING" /\ LiveEvent

LiveSpec ==
    /\ Init
    /\ [][LiveNext]_vars
    /\ WF_vars(LiveRun)
    /\ WF_vars(LiveRest)
    /\ WF_vars(LiveElapse)

----------------------------------------------------------------------------
(* The game at rest *)

\* Every gameplay update moves the enemies that are on their way to the
\* player, and every game started from the menu moves those of the levels
\* it passes through.  A long session brings them all to rest.  Here it is
\* Game.run at 50 ms frames with these keys: RETURN and LSHIFT in the
\* first frame; whenever a frame has moved nothing, ESCAPE, (the first
\* time) DOWN, RETURN, RETURN and LSHIFT in the next one; after the 1500th
\* game, at rest where the game before came to rest, ESCAPE and RETURN,
\* and then the menu until the cooldown of the last slow motion has run
\* out: 5602 frames and 16805 fixed updates, 280100 ms after the start.
\* From then on no gameplay update moves an enemy, at either time scale.
SettledEnemy(kind, x, y, vy, charging, charge, teleport) ==
    [Enemy(kind, x, y) EXCEPT !.velocity = [x |-> 0, y |-> vy],
                               !.is_charging = charging,
                               !.charge_cooldown = charge,
                               !.teleport_cooldown = teleport]

\* Level.enemies of PlayingState.levels[i] at the end of the session: the
\* enemies stand left of or above the point they make for, where the
\* truncation of their rect holds them.
SettledEnemies(i) ==
    CASE i = 0 -> <<>>
      [] i = 1 ->
           <<SettledEnemy("medieval", 306, 336, 0, FALSE, FZero, FZero)>>
      [] i = 2 ->
           <<SettledEnemy("prehistoric", 100, 118, 1, TRUE,
                          Sec(-64, 21004), FZero),
             SettledEnemy("medieval", 391, 191, 0, FALSE, FZero, FZero),
             SettledEnemy("futuristic", 100, 0, 1, FALSE,
                          FZero, Sec(-64, 148684))>>
      [] i = 3 ->
           <<SettledEnemy("prehistoric", 100, 350, 1, FALSE, FZero, FZero),
             SettledEnemy("medieval", 210, 350, 0, FALSE, FZero, FZero),
             SettledEnemy("futuristic", 100, 350, 1, FALSE, FZero, FZero)>>
      [] i = 4 ->
           <<SettledEnemy("prehistoric", 100, 450, 1, TRUE,
                          Sec(-16, -183284), FZero),
             SettledEnemy("medieval", 202, 350, 0, FALSE, FZero, FZero),
             SettledEnemy("futuristic", 100, 250, 1, FALSE, FZero, FZero)>>

\* The player at the end of the session: on the floor of the demo level
\* below its spawn position, its health taken by the enemies it met.
SettledPlayer ==
    [Player_init EXCEPT !.rect = [x |-> 100, y |-> 616],
                        !.on_ground = TRUE,
                        !.health = 0]

\* The TimeManager at the end of the session: the last slow motion ended
\* at 250100 ms, its cooldown at 280100 ms.
SettledTimeManager ==
    [TimeManager_init EXCEPT !.slow_motion_end_time = 250100,
                             !.slow_motion_cooldown_end = 280100]

\* The accumulator at the end of the session, 16.666666666587066 ms.
SettledAccumulator == Ms(50, -67217)

\* The last wall-clock reading of the specifications that start at rest.
SettledHorizon == SettledTimeManager.slow_motion_cooldown_end + MaxNow

SettledInit ==
    /\ pc = "events"
    /\ running = TRUE
    /\ accumulated_time = SettledAccumulator
    /\ frame_time = FromMs(50)
    /\ steps_in_pass = 3
    /\ interpolation = [num |-> SettledAccumulator, den |-> fixed_time_step]
    /\ events_handled = 0
    /\ now = SettledTimeManager.slow_motion_cooldown_end
    /\ time_manager = SettledTimeManager
    /\ update_dt = StepDt
    /\ current_state = "MENU"
    /\ menu_selected = 0
    /\ paused_selected = 1
    /\ era_state = [target_era |-> "MEDIEVAL", transition_alpha |-> 0,
                    fading_in |-> TRUE]
    /\ playing = [PlayingState_init EXCEPT
                      !.current_level_index = NumLevels - 1,
                      !.current_level = NumLevels - 1,
                      !.groups = NumLevels - 1,
                      !.levels = [i \in 0 .. NumLevels - 1 |->
                                     SettledEnemies(i)]]
    /\ player = SettledPlayer
    /\ last_call = NoCall
    /\ save_dir = SaveManager_init
    /\ ref = [acc |-> FZero, steps |-> 0]
    /\ ledger = [expired_in |-> "none", driver |-> "none"]

\* The running game from there, with no bound on its frames: Game.run never
\* blocks, every frame lasts 25 ms, and the wall clock advances until the
\* explored range ends.  The mode in which a fixed update ended a slow
\* motion is booked in ledger.expired_in until the next fixed update.
SettledEvent ==
    \E e \in LiveEvents \cap Offered(SettledHorizon) :
        events_handled = 0 /\ HandleEvent(e) /\ UNCHANGED obsVars
SettledEndEvents == EndEvents /\ UNCHANGED obsVars
SettledTick == ClockTick(FromMs(25)) /\ UNCHANGED obsVars
SettledStep ==
    /\ FixedUpdate
    /\ ledger' = [ledger EXCEPT
                    !.expired_in =
                        IF /\ time_manager.slow_motion_active
                           /\ ~time_manager'.slow_motion_active
                        THEN current_state ELSE "none"]
    /\ UNCHANGED ref
SettledRender == Render /\ UNCHANGED obsVars
SettledElapse ==
    now + 5000 <= SettledHorizon /\ Elapse(5000) /\ UNCHANGED obsVars

SettledNext ==
    \/ SettledEvent
    \/ SettledEndEvents
    \/ SettledTick
    \/ SettledStep
    \/ SettledRender
    \/ SettledElapse

\* Any step of Game.run itself.
SettledRun == SettledEndEvents \/ SettledTick \/ SettledStep \/ SettledRender

\* Fairness of the game loop and of the wall clock, none of the input.
SettledSpec ==
    /\ SettledInit
    /\ [][SettledNext]_vars
    /\ WF_vars(SettledRun)
    /\ WF_vars(SettledElapse)

\* The TimeManager of the game at rest, driven by Game.run (which never
\* calls TimeManager.start_era_transition) or by a caller of its interface
\* (who may): the slow motion and the era keys of the game, whole fades
\* included, or start_slow_motion, update and start_era_transition in any
\* order.  ledger.driver books which of the two drives a behaviour; the
\* wall clock advances under both.
IndepEvents ==
    {KeyDown("K_RETURN"), KeyDown("K_LSHIFT"), KeyDown("K_q"), KeyDown("K_z")}
ByLoop == ledger.driver \in {"none", "loop"}
ByCaller == ledger.driver \in {"none", "caller"}

IndepEvent ==
    \E e \in IndepEvents \cap Offered(SettledHorizon) :
        /\ ByLoop
        /\ HandleEvent(e)
        /\ ledger' = [ledger EXCEPT !.driver = "loop"]
        /\ UNCHANGED ref
IndepEndEvents ==
    /\ ByLoop
    /\ EndEvents
    /\ ledger' = [ledger EXCEPT !.driver = "loop"]
    /\ UNCHANGED ref
IndepTick == ClockTick(FromMs(25)) /\ UNCHANGED obsVars
IndepStep == FixedUpdate /\ UNCHANGED obsVars
IndepRender == Render /\ UNCHANGED obsVars
IndepElapse ==
    now + 5000 <= SettledHorizon /\ Elapse(5000) /\ UNCHANGED obsVars
IndepStartSlowMotion ==
    /\ ByCaller
    /\ now + SLOW_MOTION_DURATION <= SettledHorizon
    /\ time_manager' = TimeManager_start_slow_motion(time_manager, now).tm
    /\ last_call' =
          [op |-> "start_slow_motion",
           result |-> TimeManager_start_slow_motion(time_manager, now).result]
    /\ ledger' = [ledger EXCEPT !.driver = "caller"]
    /\ UNCHANGED <<gameVars, now, smVars, ref>>
    /\ UNCHANGED save_dir
IndepUpdate ==
    /\ ByCaller
    /\ time_manager' = TimeManager_update(time_manager, now)
    /\ last_call' = [op |-> "update", result |-> FALSE]
    /\ ledger' = [ledger EXCEPT !.driver = "caller"]
    /\ UNCHANGED <<gameVars, now, smVars, ref>>
    /\ UNCHANGED save_dir
IndepStartEraTransition(target_era) ==
    /\ ByCaller
    /\ time_manager' = TimeManager_start_era_transition(time_manager,
                                                        target_era)
    /\ last_call' = [op |-> "start_era_transition", result |-> FALSE]
    /\ ledger' = [ledger EXCEPT !.driver = "caller"]
    /\ UNCHANGED <<gameVars, now, smVars, ref>>
    /\ UNCHANGED save_dir
IndepBeginTransition ==
    \E target_era \in Eras : IndepStartEraTransition(target_era)

IndepNext ==
    \/ IndepEvent
    \/ IndepEndEvents
    \/ IndepTick
    \/ IndepStep
    \/ IndepRender
    \/ IndepElapse
    \/ IndepStartSlowMotion
    \/ IndepUpdate
    \/ IndepBeginTransition

IndepSpec == SettledInit /\ [][IndepNext]_vars

----------------------------------------------------------------------------
(* Properties *)

PassComplete == pc # "drain"
Last(seq) == seq[Len(seq)]

\* steps * fixed_time_step + accumulated_time - (sum of the clamped frame
\* times), as an exact number: its thirds of a millisecond and its units U.
LedgerGapThirds ==
    ledger.steps * fixed_time_step.n + accumulated_time.n - ledger.kept.n
LedgerGapUnits ==
    ledger.steps * fixed_time_step.d + accumulated_time.d - ledger.kept.d

\* C1: after every scheduling pass 0 <= accumulated_time < fixed_time_step,
\* and the interpolation handed to render, accumulated_time /
\* fixed_time_step, lies in [0, 1).
C1_AccumulatorInRange ==
    /\ PassComplete =>
          /\ FLe(FZero, accumulated_time)
          /\ FLt(accumulated_time, fixed_time_step)
    /\ interpolation.den = fixed_time_step
    /\ FLe(FZero, interpolation.num)
    /\ FLt(interpolation.num, interpolation.den)

\* C2: steps emitted x fixed_time_step + accumulated_time equals
\* the sum of the clamped frame times, exactly.
C2_TimeConservedExactly ==
    PassComplete => LedgerGapThirds = 0 /\ LedgerGapUnits = 0

\* C3: a single 500 ms frame fed at accumulated_time = 0 produces exactly
\* five fixed steps in that pass.
C3_OverCapFrameGivesFiveSteps ==
    (PassComplete /\ ledger.fed = <<FromMs(500)>>) =>
        ledger.steps = MaxFrameSteps

\* C4: a negative frame time is clamped to zero before use: the pass adds
\* nothing to the accumulator, emits no step, and the accumulator is never
\* negative.
C4_NegativeFrameTimeClamped ==
    (ledger.frames > 0 /\ FLt(Last(ledger.fed), FZero)) =>
        /\ frame_time = FZero
        /\ steps_in_pass = 0
        /\ FLe(FZero, accumulated_time)

\* C5: the steps emitted per frame and the accumulator left are the
\* function SchedulePass of the frame times seen so far, whatever the mode,
\* the events, the slow-motion state and the wall clock were.
C5_StepsFollowFrameTimes ==
    PassComplete =>
        /\ accumulated_time = ref.acc
        /\ steps_in_pass = ref.steps

\* C5 witness: a two-step pass made while paused in slow motion.
C5_Witness ==
    /\ pc = "events"
    /\ steps_in_pass = 2
    /\ current_state = "PAUSED"
    /\ time_manager.slow_motion_active
    /\ now > 0

\* C6: time_scale is SLOW_MOTION_FACTOR exactly when slow_motion_active,
\* and 1.0 otherwise; get_time_scale returns no third value.
C6_ScaleMatchesSlowMotion ==
    /\ time_manager.time_scale = SLOW_MOTION_FACTOR
          <=> time_manager.slow_motion_active
    /\ ~time_manager.slow_motion_active
          => time_manager.time_scale = NormalTimeScale
    /\ get_time_scale(time_manager) \in {NormalTimeScale, SLOW_MOTION_FACTOR}

\* C6 witness: slow motion has expired once and is active again.
C6_Witness ==
    /\ time_manager.slow_motion_active
    /\ time_manager.slow_motion_cooldown_end > 0

\* A step that is a call of start_slow_motion (LSHIFT handled in Playing).
StartSlowMotionCalled ==
    /\ events_handled' = events_handled + 1
    /\ last_call'.op = "start_slow_motion"

\* A step that is one fixed_update.
FixedUpdateDone == steps_in_pass' = steps_in_pass + 1

SlowMotionFields(tm) ==
    <<tm.time_scale, tm.slow_motion_active, tm.slow_motion_end_time,
      tm.slow_motion_cooldown_end>>

\* C7: start_slow_motion returns true only when slow motion is inactive and
\* now >= slow_motion_cooldown_end, and then sets slow_motion_active, the
\* scale SLOW_MOTION_FACTOR and the expiry now + SLOW_MOTION_DURATION; in
\* every other state it returns false.
C7_StartOnlyWhenIdle ==
    [][StartSlowMotionCalled =>
        /\ last_call'.result
              <=> (/\ ~time_manager.slow_motion_active
                   /\ now >= time_manager.slow_motion_cooldown_end)
        /\ last_call'.result =>
              /\ time_manager'.slow_motion_active
              /\ time_manager'.time_scale = SLOW_MOTION_FACTOR
              /\ time_manager'.slow_motion_end_time
                    = now + SLOW_MOTION_DURATION]_vars

\* C7 witness: a successful start after an earlier cooldown has elapsed.
C7_Witness ==
    /\ last_call = [op |-> "start_slow_motion", result |-> TRUE]
    /\ time_manager.slow_motion_cooldown_end > 0
    /\ time_manager.slow_motion_end_time = now + SLOW_MOTION_DURATION

\* C8: a start_slow_motion call made while slow motion is active or the
\* cooldown has not elapsed returns false and changes nothing.
C8_FailedStartChangesNothing ==
    [][(/\ StartSlowMotionCalled
        /\ \/ time_manager.slow_motion_active
           \/ now < time_manager.slow_motion_cooldown_end) =>
        /\ ~last_call'.result
        /\ time_manager' = time_manager]_vars

\* C8 witness: a failed call made while slow motion is active and the
\* clock has moved since it started.
C8_Witness ==
    /\ last_call = [op |-> "start_slow_motion", result |-> FALSE]
    /\ time_manager.slow_motion_active
    /\ time_manager.slow_motion_end_time < now + SLOW_MOTION_DURATION

\* C9: an update made while active with now >= slow_motion_end_time
\* deactivates slow motion, resets the scale to 1.0 and sets the cooldown
\* end to now + SLOW_MOTION_COOLDOWN; one made while active with
\* now < slow_motion_end_time leaves the slow-motion fields unchanged.
C9_UpdateExpiresSlowMotion ==
    [][(FixedUpdateDone /\ time_manager.slow_motion_active) =>
        IF now >= time_manager.slow_motion_end_time
        THEN /\ ~time_manager'.slow_motion_active
             /\ time_manager'.time_scale = NormalTimeScale
             /\ time_manager'.slow_motion_cooldown_end
                   = now + SLOW_MOTION_COOLDOWN
             /\ time_manager'.slow_motion_end_time
                   = time_manager.slow_motion_end_time
        ELSE SlowMotionFields(time_manager')
                = SlowMotionFields(time_manager)]_vars

\* C9 witness: slow motion just expired in an update that ran after the
\* scheduled expiry.
C9_Witness ==
    /\ steps_in_pass > 0
    /\ ~time_manager.slow_motion_active
    /\ time_manager.slow_motion_cooldown_end = now + SLOW_MOTION_COOLDOWN
    /\ time_manager.slow_motion_end_time < now

\* C10: once active, slow motion eventually becomes inactive while the game
\* keeps running, in whatever mode it is; and only a fixed update made at
\* or after the expiry deactivates it.
C10_SlowMotionSelfTerminates ==
    /\ [](time_manager.slow_motion_active =>
            <>(~time_manager.slow_motion_active \/ pc = "done"))
    /\ [][(/\ time_manager.slow_motion_active
           /\ ~time_manager'.slow_motion_active) =>
            /\ FixedUpdateDone
            /\ now >= time_manager.slow_motion_end_time]_vars

\* C10 witness: a fixed update made in Playing has just ended a slow
\* motion, in a game that was not paused for it.
C10_Witness ==
    /\ ledger.expired_in = "PLAYING"
    /\ current_state = "PLAYING"
    /\ ~time_manager.slow_motion_active
    /\ time_manager.time_scale = NormalTimeScale
    /\ time_manager.slow_motion_cooldown_end = now + SLOW_MOTION_COOLDOWN

\* C11: in every fixed step TimeManager.update runs first, and the dt handed
\* to the game-mode update is fixed_time_step times the time scale read
\* after it; a slow motion that expires in the step yields the unscaled dt.
C11_TimeEffectsBeforeModeUpdate ==
    [][FixedUpdateDone =>
        /\ time_manager' = TimeManager_update(time_manager, now)
        /\ update_dt' = ScaleDt(StepDt, get_time_scale(time_manager'))
        /\ (/\ time_manager.slow_motion_active
            /\ now >= time_manager.slow_motion_end_time)
              => update_dt' = StepDt]_vars

\* C11 witness: the step in which slow motion expired was handed the
\* unscaled dt.
C11_Witness ==
    /\ pc = "drain"
    /\ steps_in_pass = 1
    /\ update_dt = StepDt
    /\ ~time_manager.slow_motion_active
    /\ time_manager.slow_motion_cooldown_end = now + SLOW_MOTION_COOLDOWN

\* C12: in a fixed step made in Playing, the dt the gameplay logic receives
\* is fixed_time_step times the time scale: the scale is applied once.
C12_GameplayDtScaledOnce ==
    [][(FixedUpdateDone /\ current_state = "PLAYING") =>
        playing'.scaled_dt
            = ScaleDt(StepDt, get_time_scale(time_manager'))]_vars

\* The mode changes an input event may make, with the event that makes them.
EventModeChange(e) ==
    \/ /\ current_state = "MENU"
       /\ e = KeyDown("K_RETURN")
       /\ current_state' = "PLAYING"
    \/ /\ current_state = "PLAYING"
       /\ e = KeyDown("K_ESCAPE")
       /\ current_state' = "PAUSED"
    \/ /\ current_state = "PLAYING"
       /\ e \in {KeyDown("K_q"), KeyDown("K_z")}
       /\ current_state' = "ERA_TRANSITION"
    \/ /\ current_state = "PAUSED"
       /\ \/ e = KeyDown("K_ESCAPE")
          \/ e = KeyDown("K_RETURN") /\ paused_selected = 0
       /\ current_state' = "PLAYING"
    \/ /\ current_state = "PAUSED"
       /\ e = KeyDown("K_RETURN") /\ paused_selected = 1
       /\ current_state' = "MENU"

\* A step that handles one input event.
EventHandled == events_handled' = events_handled + 1

\* C13: the mode is one of the four, initially Menu, and it changes only by
\* Menu->Playing (RETURN), Playing->Paused (ESCAPE), Playing->EraTransition
\* (Q, Z), Paused->Playing (resume), Paused->Menu (quit to menu) on an
\* input event, and EraTransition->Playing in an update step; every other
\* event and step leaves it unchanged.
C13_OnlyLegalModeChanges ==
    /\ current_state = "MENU"
    /\ [][/\ current_state' \in GameState
          /\ \A e \in Events :
                (HandleEvent(e) /\ current_state' # current_state)
                    => EventModeChange(e)
          /\ (FixedUpdateDone /\ current_state' # current_state)
                => (/\ current_state = "ERA_TRANSITION"
                    /\ current_state' = "PLAYING")
          /\ current_state' # current_state
                => (EventHandled \/ FixedUpdateDone)]_vars

\* C13 witness: back in the menu by way of Playing, a completed era
\* transition, Playing again and Paused.
C13_Witness ==
    /\ current_state = "MENU"
    /\ paused_selected = 1
    /\ player.current_era # "MEDIEVAL"

\* C14: from Paused the mode becomes Playing exactly on ESCAPE or on RETURN
\* with Resume selected, Menu exactly on RETURN with Return to Menu
\* selected; UP and DOWN change the selected option only; every other
\* event and every update step leaves the mode Paused.
C14_PausedLeavesOnlyByResumeOrQuit ==
    [][current_state = "PAUSED" =>
        /\ \A e \in Events : HandleEvent(e) =>
              /\ current_state' = "PLAYING"
                    <=> \/ e = KeyDown("K_ESCAPE")
                        \/ e = KeyDown("K_RETURN") /\ paused_selected = 0
              /\ current_state' = "MENU"
                    <=> (e = KeyDown("K_RETURN") /\ paused_selected = 1)
              /\ current_state' \in {"PAUSED", "PLAYING", "MENU"}
              /\ paused_selected' # paused_selected
                    <=> e \in {KeyDown("K_UP"), KeyDown("K_DOWN")}
              /\ UNCHANGED <<time_manager, menu_selected, era_state,
                             playing, player>>
        /\ FixedUpdateDone => current_state' = "PAUSED"
        /\ current_state' # "PAUSED" => EventHandled]_vars

\* C14 witness: Playing again after a pause in which the selection was
\* moved to Return to Menu.
C14_Witness ==
    /\ current_state = "PLAYING"
    /\ paused_selected = 1
    /\ events_handled > 0

\* C15: an era-switch input (Q or Z) handled in Playing makes the mode
\* EraTransition, captures the next (Q) or previous (Z) era of the player's
\* era as target, and begins the TimeManager's transition: transitioning
\* is true with that target era.
C15_EraSwitchBeginsTimeManagerTransition ==
    [][\A k \in {"K_q", "K_z"} :
          (current_state = "PLAYING" /\ HandleEvent(KeyDown(k))) =>
              /\ current_state' = "ERA_TRANSITION"
              /\ era_state'.target_era =
                    IF k = "K_q" THEN NextEra(player.current_era)
                                 ELSE PrevEra(player.current_era)
              /\ time_manager'.transitioning
              /\ time_manager'.target_era = era_state'.target_era]_vars

\* The update step in which the fade reaches its peak.
FadePeaks ==
    /\ FixedUpdateDone
    /\ current_state = "ERA_TRANSITION"
    /\ era_state.fading_in
    /\ era_state'.transition_alpha = AlphaMax

\* C16: during an era transition the player's era changes exactly once, in
\* the update step in which the fade reaches its peak, and jumps straight
\* to the target era: before the peak it is the source era, after it the
\* target era, and no other step of the transition changes it.
C16_EraChangesOnceAtPeak ==
    /\ [](current_state = "ERA_TRANSITION" =>
            (era_state.fading_in
                <=> player.current_era # era_state.target_era))
    /\ [][current_state = "ERA_TRANSITION" =>
            /\ player'.current_era # player.current_era <=> FadePeaks
            /\ FadePeaks =>
                  /\ player'.current_era = era_state.target_era
                  /\ ~era_state'.fading_in
                  /\ era_state'.target_era = era_state.target_era]_vars

\* C16 witness: a fade to the previous era on its way down, the player
\* already in the target era.
C16_Witness ==
    /\ current_state = "ERA_TRANSITION"
    /\ ~era_state.fading_in
    /\ era_state.transition_alpha > 0
    /\ era_state.transition_alpha < AlphaMax
    /\ era_state.target_era = "PREHISTORIC"
    /\ player.current_era = "PREHISTORIC"

\* C17: start_era_transition called while a transition is in progress, or
\* with the current era as target, changes nothing in the TimeManager: not
\* the transitioning flag, the progress, the target era or the surfaces.
C17_BeginTransitionNoOp ==
    /\ [](\A t \in Eras :
            (time_manager.transitioning \/ t = time_manager.current_era)
                => TimeManager_start_era_transition(time_manager, t)
                       = time_manager)
    /\ [][\A t \in Eras :
            (/\ ApiStartEraTransition(t)
             /\ time_manager.transitioning \/ t = time_manager.current_era)
                => UNCHANGED time_manager]_vars

\* C17 witness: the last call was start_era_transition, made part-way
\* through a transition whose progress and surfaces it left standing.
C17_Witness ==
    /\ last_call.op = "start_era_transition"
    /\ time_manager.transitioning
    /\ time_manager.transition_progress > 0
    /\ time_manager.current_surface = "screen_copy"

\* C18: while a transition runs every update moves the progress
\* by the fixed amount, up until 1.0 and then down again, within [0, 1],
\* and transitioning becomes false only in an update that brings the
\* progress down to 0.
C18_ProgressRisesThenFalls ==
    [][(ApiUpdate /\ time_manager.transitioning) =>
        /\ \/ time_manager'.transition_progress
                = time_manager.transition_progress + TransitionSpeed
           \/ time_manager'.transition_progress
                = time_manager.transition_progress - TransitionSpeed
        /\ time_manager'.transition_progress \in 0..1000
        /\ ~time_manager'.transitioning =>
              /\ time_manager'.transition_progress = 0
              /\ time_manager.transition_progress = TransitionSpeed]_vars

\* C19: while the game loop keeps running, the mode EraTransition is always
\* left again, and only to Playing.  It is entered with alpha 0, fading in;
\* every fixed step of the rising phase raises the alpha, the step that
\* reaches 255 ends the rising phase, every later step lowers the alpha,
\* and the mode becomes Playing in exactly the step that brings the alpha
\* back to 0.  Nothing but a fixed step changes the fade.
C19_FadeRisesFallsThenPlaying ==
    /\ [](current_state = "ERA_TRANSITION" =>
            <>(current_state = "PLAYING" \/ pc = "done"))
    /\ [](current_state = "ERA_TRANSITION" =>
            /\ era_state.transition_alpha \in 0..AlphaMax
            /\ era_state.fading_in => era_state.transition_alpha < AlphaMax
            /\ ~era_state.fading_in => era_state.transition_alpha > 0)
    /\ [][/\ (current_state # "ERA_TRANSITION"
               /\ current_state' = "ERA_TRANSITION") =>
                /\ era_state'.transition_alpha = 0
                /\ era_state'.fading_in
          /\ current_state = "ERA_TRANSITION" =>
                /\ current_state' \in {"ERA_TRANSITION", "PLAYING"}
                /\ ~FixedUpdateDone => UNCHANGED <<current_state, era_state>>
                /\ (FixedUpdateDone /\ era_state.fading_in) =>
                      /\ era_state'.transition_alpha
                            > era_state.transition_alpha
                      /\ ~era_state'.fading_in
                            <=> era_state'.transition_alpha = AlphaMax
                      /\ current_state' = "ERA_TRANSITION"
                /\ (FixedUpdateDone /\ ~era_state.fading_in) =>
                      /\ era_state'.transition_alpha
                            < era_state.transition_alpha
                      /\ ~era_state'.fading_in
                      /\ current_state' = "PLAYING"
                            <=> era_state'.transition_alpha = 0]_vars

\* C19 witness: Playing again in the next era after a whole fade, with
\* slow motion active.
C19_Witness ==
    /\ current_state = "PLAYING"
    /\ player.current_era = "FUTURISTIC"
    /\ era_state.transition_alpha = 0
    /\ ~era_state.fading_in
    /\ time_manager.slow_motion_active

\* C20: a fixed step made in EraTransition does not run the gameplay: the
\* level index, the enemies of every level, the dt of the last gameplay
\* update and the player's health and stamina are unchanged, and the
\* player's era and era-power cooldown are unchanged too except in the step
\* that reaches the peak, which switches the era and clears the cooldown;
\* only the fade alpha and fading_in change.
C20_FadeDoesNotRunGameplay ==
    [][(FixedUpdateDone /\ current_state = "ERA_TRANSITION") =>
        /\ UNCHANGED <<playing, menu_selected, paused_selected>>
        /\ player'.stamina = player.stamina
        /\ era_state'.target_era = era_state.target_era
        /\ IF FadePeaks
           THEN player' = Player_switch_era(player, era_state.target_era)
           ELSE UNCHANGED player]_vars

\* C20 witness: past the peak of a fade that began right after the era
\* power was used: the stamina spent is still missing, the cooldown the
\* power started has been cleared by the era switch, and the enemies are
\* where the gameplay before the fade moved them.
C20_Witness ==
    /\ current_state = "ERA_TRANSITION"
    /\ playing.levels # PlayingState_init.levels
    /\ ~era_state.fading_in
    /\ player.stamina = Units(PLAYER_MAX_STAMINA - PowerStaminaCost)
    /\ player.era_power_cooldown = FZero
    /\ player.current_era = era_state.target_era

\* The keys MenuState.handle_event acts on.
MenuNavigation == {KeyDown("K_UP"), KeyDown("K_DOWN"), KeyDown("K_RETURN")}

\* C21: an event handled in EraTransition, whatever it is, and an event
\* other than UP, DOWN and RETURN handled in Menu, changes nothing: not the
\* mode, the target era, the fade, the TimeManager (slow motion), the
\* player, the level or a menu selection.
C21_EventsDroppedDuringFade ==
    [][\A e \in Events :
          (/\ HandleEvent(e)
           /\ \/ current_state = "ERA_TRANSITION"
              \/ current_state = "MENU" /\ e \notin MenuNavigation)
            => UNCHANGED <<current_state, era_state, time_manager, player,
                           playing, menu_selected, paused_selected>>]_vars

\* C21 witness: an event has been handled in this frame while a fade begun
\* in an earlier frame was on its way up.
C21_Witness ==
    /\ current_state = "ERA_TRANSITION"
    /\ pc = "events"
    /\ events_handled > 0
    /\ era_state.fading_in
    /\ era_state.transition_alpha > 0

\* C22: RETURN handled in Menu enters Playing with the selected level
\* current (the first for option 0, the last for option 1), the player at
\* that level's spawn position with velocity (0, 0) and on_ground cleared,
\* and the walls, enemies and projectiles groups of PlayingState those of
\* that level.
C22_StartGameResetsPlayer ==
    [][(current_state = "MENU" /\ HandleEvent(KeyDown("K_RETURN"))) =>
        LET level == IF menu_selected = 1 THEN NumLevels - 1 ELSE 0
        IN  /\ current_state' = "PLAYING"
            /\ playing'.current_level_index = level
            /\ playing'.groups = level
            /\ player'.rect = get_spawn_position(level)
            /\ player'.velocity = [x |-> 0, y |-> 0]
            /\ ~player'.on_ground]_vars

\* C22 witness: the demo level entered a second time, after a run in which
\* the era power was used and the game was left through the pause menu:
\* the player is back at the spawn position, in the air.
C22_Witness ==
    /\ current_state = "PLAYING"
    /\ pc = "events"
    /\ events_handled > 0
    /\ paused_selected = 1
    /\ FLt(player.stamina, Units(PLAYER_MAX_STAMINA))
    /\ playing.current_level_index = NumLevels - 1
    /\ playing.groups = NumLevels - 1
    /\ player.rect = get_spawn_position(NumLevels - 1)
    /\ player.velocity = [x |-> 0, y |-> 0]
    /\ ~player.on_ground

\* A completed transition to the era after the player's (Q) or before it
\* (Z): what switch_era leaves of the player at the peak of the fade.
AfterNextTransition(p) == Player_switch_era(p, NextEra(p.current_era))
AfterPrevTransition(p) == Player_switch_era(p, PrevEra(p.current_era))

\* C23: the next-era and previous-era mappings are inverse bijections of
\* the three eras without a fixed point; three completed next-era
\* transitions in a row, or three previous-era ones, bring the player back
\* to the era it had; and the target Q or Z computes in Playing is the
\* next or previous era of the player's era, never that era itself.
C23_EraCycle ==
    /\ [](/\ \A era \in Eras :
                /\ NextEra(era) \in Eras \ {era}
                /\ PrevEra(era) \in Eras \ {era}
                /\ PrevEra(NextEra(era)) = era
                /\ NextEra(PrevEra(era)) = era
          /\ AfterNextTransition(AfterNextTransition(
                 AfterNextTransition(player))).current_era
                    = player.current_era
          /\ AfterPrevTransition(AfterPrevTransition(
                 AfterPrevTransition(player))).current_era
                    = player.current_era
          /\ current_state = "ERA_TRANSITION" =>
                (era_state.fading_in
                    => era_state.target_era # player.current_era))
    /\ [][\A k \in {"K_q", "K_z"} :
            (current_state = "PLAYING" /\ HandleEvent(KeyDown(k))) =>
                /\ era_state'.target_era =
                      IF k = "K_q" THEN NextEra(player.current_era)
                                   ELSE PrevEra(player.current_era)
                /\ era_state'.target_era # player.current_era
                /\ era_state'.target_era \in Eras]_vars

\* C23 witness: Playing in the starting era again, at the end of a
\* transition that led back to it.
C23_Witness ==
    /\ current_state = "PLAYING"
    /\ player.current_era = "MEDIEVAL"
    /\ era_state.target_era = "MEDIEVAL"
    /\ ~era_state.fading_in
    /\ era_state.transition_alpha = 0
    /\ steps_in_pass > 0

\* The era-transition state of the TimeManager.
TransitionFields(tm) ==
    <<tm.transitioning, tm.transition_progress, tm.target_era,
      tm.current_era>>

\* C24: no era-transition operation touches the slow motion, and the slow
\* motion touches no era transition.  TimeManager.start_era_transition
\* leaves time_scale, slow_motion_active, slow_motion_end_time and
\* slow_motion_cooldown_end as they are; TimeManager.update, called by a
\* caller or by a fixed update of the game, changes them only as its
\* slow-motion half does, whether a transition is idle, progressing or
\* completing; the step that enters the EraTransition mode leaves the
\* whole TimeManager as it is, and so does every step made in that mode
\* but the fixed updates, of which the last one leaves the mode for
\* Playing; start_slow_motion and the wall clock leave the transition
\* fields as they are; and what get_time_scale returns is time_scale,
\* 1.0 or SLOW_MOTION_FACTOR, whatever the transition is doing.
C24_SlowMotionIndependentOfTransition ==
    /\ [](/\ get_time_scale(time_manager) = time_manager.time_scale
          /\ get_time_scale(time_manager)
                = IF time_manager.slow_motion_active
                  THEN SLOW_MOTION_FACTOR ELSE NormalTimeScale
          /\ SlowMotionFields(UpdateEraTransition(time_manager))
                = SlowMotionFields(time_manager))
    /\ [][/\ \A t \in Eras : IndepStartEraTransition(t) =>
                SlowMotionFields(time_manager')
                    = SlowMotionFields(time_manager)
          /\ (IndepUpdate \/ FixedUpdateDone) =>
                SlowMotionFields(time_manager')
                    = SlowMotionFields(UpdateSlowMotion(time_manager, now))
          /\ (/\ current_state # "ERA_TRANSITION"
              /\ current_state' = "ERA_TRANSITION") =>
                /\ ~FixedUpdateDone
                /\ time_manager' = time_manager
          /\ (current_state = "ERA_TRANSITION" /\ ~FixedUpdateDone) =>
                /\ current_state' = "ERA_TRANSITION"
                /\ time_manager' = time_manager
          /\ (/\ current_state = "ERA_TRANSITION"
              /\ current_state' # "ERA_TRANSITION") =>
                /\ current_state' = "PLAYING"
                /\ TransitionFields(time_manager')
                      = TransitionFields(time_manager)
          /\ (IndepStartSlowMotion \/ IndepElapse \/ IndepEvent) =>
                TransitionFields(time_manager')
                    = TransitionFields(time_manager)]_vars

\* C24 witness: a fade entered with slow motion active has just left the
\* EraTransition mode for Playing with the slow motion as it was: the last
\* mode update got the slowed dt, the last gameplay update (before the
\* slow motion began) the full one.
C24_Witness ==
    /\ ledger.driver = "loop"
    /\ pc = "drain"
    /\ steps_in_pass > 0
    /\ current_state = "PLAYING"
    /\ era_state.transition_alpha = 0
    /\ ~era_state.fading_in
    /\ player.current_era = era_state.target_era
    /\ player.current_era # "MEDIEVAL"
    /\ update_dt = ScaleDt(StepDt, SLOW_MOTION_FACTOR)
    /\ playing.scaled_dt = StepDt
    /\ time_manager.slow_motion_active
    /\ time_manager.time_scale = SLOW_MOTION_FACTOR
    /\ now < time_manager.slow_motion_end_time

\* The walls of `walls` the player's rect at r overlaps.
Hit(r, walls) == {i \in 1..Len(walls) : colliderect(r, walls[i])}

\* C25: in a Player.update, with g the player after gravity, hm after the
\* horizontal move, h after the horizontal collisions and vm after the
\* vertical move of h: a horizontal overlap of a moving body ends with
\* velocity.x = 0 and the leading edge on the facing edge of a wall it hit;
\* a vertical overlap while moving down ends with velocity.y = 0,
\* on_ground set and the bottom on the top of a wall it hit; a vertical
\* overlap while moving up ends with velocity.y = 0, the top on the bottom
\* of the wall and on_ground as it was; a move without overlap is kept as
\* it is; and the vertical move starts from the resolved horizontal one.
C25_CollisionResolution ==
    [][(FixedUpdateDone /\ current_state = "PLAYING") =>
        LET walls == GroupWalls(playing.groups)
            dt == playing'.scaled_dt
            g == ApplyGravity(player)
            hm == HorizontalMove(g, dt)
            h == Player_handle_collision(hm, walls, "horizontal")
            vm == VerticalMove(h, dt)
        IN  /\ (g.velocity.x # 0 /\ Hit(hm.rect, walls) # {}) =>
                  /\ player'.velocity.x = 0
                  /\ \E i \in Hit(hm.rect, walls) :
                        IF g.velocity.x > 0
                        THEN player'.rect.x + PlayerWidth = walls[i].x
                        ELSE player'.rect.x = walls[i].x + walls[i].w
            /\ Hit(hm.rect, walls) = {} =>
                  /\ player'.rect.x = hm.rect.x
                  /\ player'.velocity.x = player.velocity.x
            /\ (h.velocity.y > 0 /\ Hit(vm.rect, walls) # {}) =>
                  /\ player'.velocity.y = 0
                  /\ player'.on_ground
                  /\ \E i \in Hit(vm.rect, walls) :
                        player'.rect.y + PlayerHeight = walls[i].y
            /\ (h.velocity.y < 0 /\ Hit(vm.rect, walls) # {}) =>
                  /\ player'.velocity.y = 0
                  /\ player'.on_ground = player.on_ground
                  /\ \E i \in Hit(vm.rect, walls) :
                        player'.rect.y = walls[i].y + walls[i].h
            /\ Hit(vm.rect, walls) = {} =>
                  /\ player'.rect.y = vm.rect.y
                  /\ player'.velocity.y = g.velocity.y
                  /\ player'.on_ground = player.on_ground
            /\ \A i \in 1..Len(walls) : ~colliderect(player'.rect, walls[i])]_vars

\* C25 witness: a body that fell past the corner of the first platform
\* while moving right has landed on it: the horizontal move ran clear of
\* the platform, the vertical move that followed came down on it.
C25_Witness ==
    /\ ledger.steps > 0
    /\ player.on_ground
    /\ player.velocity = [x |-> PLAYER_SPEED, y |-> 0]
    /\ player.rect.y + PlayerHeight = 500
    /\ player.rect.x < 300

\* C26: on every fixed step in Playing gravity is added to the player's
\* vertical velocity and the result is capped: after every Player.update
\* velocity.y <= MAX_FALL_SPEED, and a player no wall carries gains downward
\* velocity on that step (up to the cap) unless that step lands it on a
\* wall.
C26_GravityEveryStep ==
    [][(FixedUpdateDone /\ current_state = "PLAYING") =>
          /\ player'.velocity.y <= MAX_FALL_SPEED
          /\ ~Supported(player.rect, GroupWalls(playing.groups)) =>
                \/ player'.velocity.y > player.velocity.y
                \/ player'.velocity.y = MAX_FALL_SPEED
                \/ Supported(player'.rect, GroupWalls(playing.groups))]_vars

\* C27: within each frame the events are handled once, before any fixed
\* step of the frame (no event is handled between the steps), whether the
\* frame has no, one or several steps; and the horizontal velocity the
\* input left is the value every fixed step of the frame reads: a step
\* that another step of the same frame follows leaves it as it was.
C27_IntentReadByAllSteps ==
    /\ [](pc = "drain" => events_handled = 0)
    /\ [][(FixedUpdateDone /\ current_state = "PLAYING" /\ ~DrainDone') =>
              player'.velocity.x = player.velocity.x]_vars

\* The checkpoint saves that can be read and whose checksum validates.
ValidCheckpoints(dir) ==
    {f \in CheckpointFiles(dir) :
        ~ReadSave(dir.files[f]).raised /\ ReadSave(dir.files[f]).valid}

\* C28: load_game of a file that is there and parses but whose checksum
\* does not match its game_data returns the game_data of the most recently
\* modified checkpoint save that is valid, and None only if no checkpoint
\* save is valid; a missing file and a file that cannot be read or is
\* malformed give None.
C28_FallbackToNewestValidCheckpoint ==
    [][last_call'.op = "load_game" =>
          LET file == save_dir.files[[save_type |-> last_call'.save_type,
                                      slot |-> last_call'.slot]]
              read == ReadSave(file)
              valid == ValidCheckpoints(save_dir)
          IN  /\ (~file.exists \/ read.raised) =>
                    last_call'.value = PyNone
              /\ (file.exists /\ ~read.raised /\ ~read.valid) =>
                    IF valid = {}
                    THEN last_call'.value = PyNone
                    ELSE \E f \in valid :
                            /\ \A g \in valid : save_dir.files[g].mtime
                                                  <= save_dir.files[f].mtime
                            /\ last_call'.value =
                                  ReadSave(save_dir.files[f]).game_data]_vars

\* C29: after save_game(player, state, type, slot) returns true, load_game
\* (type, slot) returns a game_data whose player and state equal the values
\* saved and whose save_type equals type (so a later save to the pair
\* replaces an earlier one); and the save leaves what load_game returns
\* for every other pair as it was.
C29_SaveLoadRoundTrip ==
    [][\A snapshot \in Snapshots, save_type \in SaveTypes, slot \in Slots :
          (/\ SaveGameCall(snapshot.player_data, snapshot.game_state,
                           save_type, slot)
           /\ last_call'.result) =>
              LET loaded == SaveManager_load_game(save_dir', save_type, slot)
              IN  /\ DictGet(loaded, PyStr(S_player)) =
                        Returned(snapshot.player_data)
                  /\ DictGet(loaded, PyStr(S_state)) =
                        Returned(snapshot.game_state)
                  /\ DictGet(loaded, PyStr(S_save_type)) =
                        Returned(PyStr(save_type))
                  /\ \A f \in FileNames :
                        f # [save_type |-> save_type, slot |-> slot] =>
                            SaveManager_load_game(save_dir', f.save_type,
                                                  f.slot)
                              = SaveManager_load_game(save_dir, f.save_type,
                                                      f.slot)]_vars

\* C30: frames of exactly fixed_time_step each, fed from accumulated_time =
\* 0, emit exactly one fixed step per frame (n for n frames) and leave
\* accumulated_time = 0, and so an interpolation of 0, after every frame.
C30_ExactFramesOneStepEach ==
    (/\ PassComplete
     /\ ledger.frames > 0
     /\ \A i \in 1..Len(ledger.fed) : ledger.fed[i] = fixed_time_step) =>
        /\ \A i \in 1..Len(ledger.pass_steps) : ledger.pass_steps[i] = 1
        /\ ledger.steps = ledger.frames
        /\ accumulated_time = FZero
        /\ interpolation.num = FZero

\* C30 witness: three such frames have been fed and rendered, three steps
\* were emitted.
C30_Witness ==
    /\ pc = "events"
    /\ ledger.fed = <<fixed_time_step, fixed_time_step, fixed_time_step>>
    /\ ledger.pass_steps = <<1, 1, 1>>
    /\ accumulated_time = FZero

\* C31: no scheduling pass emits more than max_frame_time / fixed_time_step
\* = 5 fixed steps, whatever the frame time and the accumulator carried
\* over; the drain loop ends: after the fifth step of a pass its condition
\* is false.
C31_AtMostFiveStepsPerPass ==
    /\ steps_in_pass <= MaxFrameSteps
    /\ \A i \in 1..Len(ledger.pass_steps) :
          ledger.pass_steps[i] <= MaxFrameSteps
    /\ (pc = "drain" /\ steps_in_pass = MaxFrameSteps) => DrainDone

\* C31 witness: a pass of five steps made on top of an accumulator carried
\* over from the frame before, a frame above the cap being fed.
C31_Witness ==
    /\ pc = "events"
    /\ ledger.frames >= 2
    /\ Last(ledger.fed) = FromMs(500)
    /\ Last(ledger.pass_steps) = MaxFrameSteps
    /\ ledger.pass_steps[Len(ledger.pass_steps) - 1] \in {1, 2}
    /\ ledger.fed[Len(ledger.fed) - 1] \in {FromMs(25), FromMs(50)}

\* C32: a successful start_slow_motion at t2 that follows a successful one
\* at t1 (t1 is slow_motion_end_time - SLOW_MOTION_DURATION: only a
\* successful start sets the expiry) has t2 - t1 >= SLOW_MOTION_DURATION +
\* SLOW_MOTION_COOLDOWN; and slow motion stays active for at least
\* SLOW_MOTION_DURATION after t1.
C32_StartsSpacedByDurationAndCooldown ==
    /\ [][(/\ StartSlowMotionCalled
           /\ last_call'.result
           /\ time_manager.slow_motion_end_time > 0) =>
              now - (time_manager.slow_motion_end_time
                        - SLOW_MOTION_DURATION)
                 >= SLOW_MOTION_DURATION + SLOW_MOTION_COOLDOWN]_vars
    /\ []((/\ time_manager.slow_motion_end_time > 0
           /\ now < time_manager.slow_motion_end_time) =>
              time_manager.slow_motion_active)

\* C32 witness: the second successful start has just been made, after the
\* expiry of the first one and its cooldown.
C32_Witness ==
    /\ last_call = [op |-> "start_slow_motion", result |-> TRUE]
    /\ time_manager.slow_motion_active
    /\ time_manager.slow_motion_cooldown_end > 0
    /\ now >= SLOW_MOTION_DURATION + SLOW_MOTION_COOLDOWN
    /\ time_manager.slow_motion_end_time = now + SLOW_MOTION_DURATION

\* C33: whenever the mode changes from EraTransition back to Playing, the
\* player's era is the target era captured when the transition was entered
\* (the target does not change while the mode is EraTransition), and the
\* era-power cooldown, set to 0 in the step that switched the era, is 0.
C33_BackInPlayingInTargetEra ==
    [][/\ current_state = "ERA_TRANSITION" =>
            era_state'.target_era = era_state.target_era
       /\ FadePeaks =>
            /\ player'.current_era = era_state.target_era
            /\ player'.era_power_cooldown = FZero
       /\ (current_state = "ERA_TRANSITION" /\ current_state' = "PLAYING") =>
            /\ player'.current_era = era_state.target_era
            /\ player'.era_power_cooldown = FZero]_vars

\* C33 witness: Playing again right after a whole fade that was entered
\* with the era power just used: the era is the target, the cooldown is 0
\* and the stamina spent is still missing.
C33_Witness ==
    /\ current_state = "PLAYING"
    /\ pc = "drain"
    /\ steps_in_pass > 0
    /\ era_state.transition_alpha = 0
    /\ ~era_state.fading_in
    /\ player.current_era = era_state.target_era
    /\ player.current_era # "MEDIEVAL"
    /\ player.era_power_cooldown = FZero
    /\ player.stamina = Units(PLAYER_MAX_STAMINA - PowerStaminaCost)

\* C34: each input event of a frame is dispatched to the handler of the mode
\* that is current when that event is dispatched, whatever its place in the
\* frame: an ESCAPE key-down in Playing pauses and a following one in the
\* same frame, handled by Paused, resumes; RETURN in Menu starts the game
\* and a following ESCAPE, handled by Playing, pauses.
C34_EventGoesToCurrentMode ==
    [][\A e \in Events :
          HandleEvent(e) =>
            /\ current_state = "MENU" => MenuHandleEvent(e)
            /\ current_state = "PLAYING" => PlayingHandleEvent(e)
            /\ current_state = "PAUSED" => PausedHandleEvent(e)
            /\ current_state = "ERA_TRANSITION"
                    => EraTransitionHandleEvent(e)
            /\ (e = KeyDown("K_ESCAPE") /\ current_state = "PLAYING")
                    => current_state' = "PAUSED"
            /\ (e = KeyDown("K_ESCAPE") /\ current_state = "PAUSED")
                    => current_state' = "PLAYING"
            /\ (e = KeyDown("K_RETURN") /\ current_state = "MENU")
                    => current_state' = "PLAYING"]_vars

\* C34 witness: the first frame of the game, begun in Menu, ends paused
\* after its two events (RETURN, then ESCAPE handled by Playing).
C34_Witness ==
    /\ ledger.frames = 0
    /\ now = 0
    /\ pc = "events"
    /\ events_handled = 2
    /\ current_state = "PAUSED"

\* C35: in every reachable state 0 <= current_level_index <= len(levels) - 1
\* and current_level is levels[current_level_index]; the index never
\* decreases while the mode stays Playing; and an update step at the last
\* index, where next_level is called, leaves the level as it is and the
\* player as Player.update and the collisions with the enemies left it.
C35_LevelIndexInRange ==
    /\ [](/\ playing.current_level_index \in 0 .. NumLevels - 1
          /\ playing.current_level = playing.current_level_index)
    /\ [][/\ (current_state = "PLAYING" /\ current_state' = "PLAYING")
                => playing'.current_level_index
                       >= playing.current_level_index
          /\ (/\ FixedUpdateDone
              /\ current_state = "PLAYING"
              /\ playing.current_level_index = NumLevels - 1)
                => /\ NextLevel(playing) = playing
                   /\ playing'.current_level_index = NumLevels - 1
                   /\ playing'.current_level = playing.current_level
                   /\ playing'.groups = playing.groups
                   /\ LET updated ==
                             Player_update(player, playing'.scaled_dt,
                                           GroupWalls(playing.groups))
                      IN  player' = PlayingState_handle_collisions(
                                        updated,
                                        GroupEnemies(playing'))]_vars

\* C35 witness: an update step at the last level has moved the player away
\* from the spawn point, the level still being the last one.
C35_Witness ==
    /\ current_state = "PLAYING"
    /\ pc = "drain"
    /\ steps_in_pass >= 2
    /\ playing.current_level_index = NumLevels - 1
    /\ playing.current_level = NumLevels - 1
    /\ player.rect # get_spawn_position(NumLevels - 1)

\* C36: an update step of Playing below the last level (the level reports
\* is_completed(), as the base Level always does) advances
\* current_level_index by exactly one and puts the player at the new
\* level's spawn with zero velocity and on_ground false, the mode staying
\* Playing; so in the first pass of a tutorial game, started at index 0, the
\* index equals the number of steps taken until it is the last level's,
\* which is reached after 4 steps.
C36_CompletedLevelAdvances ==
    /\ [][(/\ FixedUpdateDone
           /\ current_state = "PLAYING"
           /\ playing.current_level_index < NumLevels - 1)
            => /\ playing'.current_level_index
                    = playing.current_level_index + 1
               /\ playing'.current_level = playing.current_level_index + 1
               /\ player'.rect
                    = get_spawn_position(playing.current_level_index + 1)
               /\ player'.velocity = [x |-> 0, y |-> 0]
               /\ player'.on_ground = FALSE
               /\ current_state' = "PLAYING"]_vars
    /\ []((/\ ledger.frames = 1
           /\ pc = "drain"
           /\ current_state = "PLAYING"
           /\ menu_selected = 0)
            => playing.current_level_index
                 = IF steps_in_pass < NumLevels - 1 THEN steps_in_pass
                                                    ELSE NumLevels - 1)

\* C36 witness: the fourth update step of a tutorial game has entered the
\* last level and left the player at its spawn point, at rest.
C36_Witness ==
    /\ ledger.frames = 1
    /\ pc = "drain"
    /\ current_state = "PLAYING"
    /\ menu_selected = 0
    /\ steps_in_pass = 4
    /\ playing.current_level_index = NumLevels - 1
    /\ player.rect = get_spawn_position(NumLevels - 1)
    /\ player.velocity = [x |-> 0, y |-> 0]
    /\ ~player.on_ground

\* A step that handles the jump key in Playing: Player.jump() is called.
JumpCalled ==
    \E e \in Events \cup MoveEvents \cup GroundEvents :
        /\ HandleEvent(e)
        /\ current_state = "PLAYING"
        /\ e.type = "KEYDOWN" /\ e.key = "K_SPACE"

\* A step that calls PlayingState._reset_game_state: start_game from the
\* menu, or next_level in an update step below the last level.
ResetCalled ==
    \/ EventHandled /\ current_state = "MENU" /\ current_state' = "PLAYING"
    \/ /\ FixedUpdateDone
       /\ current_state = "PLAYING"
       /\ playing.current_level_index < NumLevels - 1

\* C37: on_ground goes from true to false only in a step that calls jump()
\* or _reset_game_state(); an update step without a reset leaves it true
\* and moves the body by its velocity as it is, without gravity, whether or
\* not a wall carries the player; and jump() called while on_ground is
\* false leaves the vertical velocity and on_ground as they are.
C37_OnGroundClearedOnlyByJumpOrReset ==
    [][/\ (player.on_ground /\ ~player'.on_ground)
            => (JumpCalled \/ ResetCalled)
       /\ (/\ FixedUpdateDone
           /\ current_state = "PLAYING"
           /\ ~ResetCalled
           /\ player.on_ground)
            => LET moved == Player_move(player, playing'.scaled_dt,
                                        GroupWalls(playing.groups))
               IN  /\ player'.on_ground
                   /\ player'.velocity = moved.velocity
                   /\ player'.rect = moved.rect
                   /\ player'.velocity.y \in {player.velocity.y, 0}
       /\ (JumpCalled /\ ~player.on_ground)
            => /\ Player_jump(player) = player
               /\ player'.velocity.y = player.velocity.y
               /\ ~player'.on_ground
       /\ (JumpCalled /\ player.on_ground)
            => /\ player'.velocity.y = PLAYER_JUMP_FORCE
               /\ ~player'.on_ground]_vars

\* C37 witness: after an update step the player is on_ground at rest
\* vertically with no wall beneath it.
C37_Witness ==
    /\ current_state = "PLAYING"
    /\ pc = "drain"
    /\ steps_in_pass >= 1
    /\ ledger.steps >= 2
    /\ player.on_ground
    /\ player.velocity.y = 0
    /\ ~Supported(player.rect, GroupWalls(playing.groups))

\* C38: after any sequence of take_damage, heal, update and use_era_power
\* calls with non-negative amounts, 0 <= health <= max_health and
\* 0 <= stamina <= max_stamina; use_era_power takes 20 stamina and sets
\* era_power_cooldown to the current era's cooldown when
\* era_power_cooldown <= 0 and stamina >= 20, and otherwise changes nothing.
C38_HealthAndStaminaInRange ==
    /\ [](/\ player.health >= 0
          /\ player.health <= PLAYER_MAX_HEALTH
          /\ FLe(FZero, player.stamina)
          /\ FLe(player.stamina, Units(PLAYER_MAX_STAMINA)))
    /\ [][last_call'.op = "use_era_power" =>
            IF /\ FLe(player.era_power_cooldown, FZero)
               /\ FLe(Units(PowerStaminaCost), player.stamina)
            THEN /\ player'.stamina
                      = FSub(player.stamina, Units(PowerStaminaCost))
                 /\ player'.era_power_cooldown
                      = Units(era_cooldowns(player.current_era))
                 /\ player'.health = player.health
                 /\ player'.current_era = player.current_era
            ELSE player' = player]_vars

\* C38 witness: use_era_power has just been refused for want of stamina,
\* the cooldown being over, on a player damaged to zero and healed since.
C38_Witness ==
    /\ last_call.op = "use_era_power"
    /\ player.era_power_cooldown = FZero
    /\ FLt(FZero, player.stamina)
    /\ FLt(player.stamina, Units(PowerStaminaCost))
    /\ player.health = 60
    /\ ledger.steps > 0

====
